---- MODULE Spec2Model ----
(***************************************************************************)
(* Session cache and conversation service of the Data Plug Copilot         *)
(* backend (src/src/backend/services/conversation_service.py), with the   *)
(* WebSocket endpoints that drive it (src/src/backend/api/websocket.py).  *)
(*                                                                         *)
(* Time is a discrete clock counted in ticks, TicksPerSecond ticks to the  *)
(* second, so that the truncation int(elapsed) of get_ttl and the strict   *)
(* comparison elapsed > ttl_seconds of _is_expired are both visible.       *)
(*                                                                         *)
(* A ConversationContext is a heap object: the cache stores a reference,   *)
(* get hands the same reference out, and callers mutate the object in      *)
(* place.  uuid4 identifiers are unique and a context is only ever stored  *)
(* under its own session_id, so the reference is the session id.           *)
(***************************************************************************)
EXTENDS Integers, Sequences, FiniteSets, TLC

\* ---------------------------------------------------------------- bounds
TicksPerSecond == 2
MaxTime == 5
MaxIds == 3

\* SessionCache configuration (SESSION_TTL_SECONDS and SESSION_CLEANUP_INTERVAL
\* are read from the environment); max_sessions and ttl_seconds are variables
\* fixed by Init
cleanup_interval == 2

SessionIds == 1..MaxIds
Absent == [absent |-> TRUE]
\* Python's None for a key or a context reference, and for an Optional[int]
None == 0
NoInt == 0 - 1

VARIABLES
    max_sessions,   \* SessionCache.max_sessions, fixed at construction
    ttl_seconds,    \* SessionCache.ttl_seconds, fixed at construction
    cache,          \* SessionCache._cache: session id -> entry, or Absent
    last_cleanup,   \* SessionCache._last_cleanup
    now,            \* datetime.now(), in ticks
    lock,           \* SessionCache._lock: the thread that holds it and how often
    last,           \* the cache operation that ran last, its arguments and result
    heap,           \* the ConversationContext objects, by session id
    nextId,         \* how many uuid4 session ids have been handed out
    pc,             \* per caller: where it stands in the service call it runs
    loc,            \* per caller: the local variables of that call
    resp,           \* per caller: what its last finished call returned
    extra_allowed,  \* whether ConversationContext takes undeclared attributes
    conn,           \* per WebSocket connection: its stage and its session_id
    manager,        \* ConnectionManager.active_connections: session id -> connection
    voice           \* per connection: the locals of websocket_voice_endpoint

cacheVars == <<cache, last_cleanup, now>>
svcVars == <<heap, nextId, pc, loc, resp, extra_allowed, conn, manager, voice>>
vars == <<max_sessions, ttl_seconds, cache, last_cleanup, now, lock, last, heap, nextId,
          pc, loc, resp, extra_allowed, conn, manager, voice>>

\* ------------------------------------------------------- SessionCache
Stored(c) == {k \in SessionIds : c[k] # Absent}

Entry(value, t) == [data |-> value, created_at |-> t, last_accessed |-> t]

\* (mutation) an entry counts as expired already when elapsed = ttl_seconds
_is_expired_Inclusive(entry, t) ==
    (t - entry.last_accessed) >= ttl_seconds * TicksPerSecond

\* elapsed > ttl_seconds, elapsed in seconds (ticks / TicksPerSecond)
_is_expired(entry, t) == (t - entry.last_accessed) > ttl_seconds * TicksPerSecond

\* (mutation) a sweep that removes every entry
_cleanup_expired_All(c, t) == [k \in SessionIds |-> Absent]

_cleanup_expired(c, t) ==
    [k \in SessionIds |-> IF c[k] # Absent /\ _is_expired(c[k], t) THEN Absent ELSE c[k]]

LazySweepDue(lc, t) == (t - lc) >= cleanup_interval * TicksPerSecond

\* the cache after _lazy_cleanup
_lazy_cleanup(c, lc, t) == IF LazySweepDue(lc, t) THEN _cleanup_expired(c, t) ELSE c

\* (mutation) the most recently accessed entries instead of the oldest
OldestKeys_Newest(c) ==
    {k \in Stored(c) : \A j \in Stored(c) : c[k].last_accessed >= c[j].last_accessed}

\* (mutation) the entries created first instead of those accessed longest ago
OldestKeys_ByCreation(c) ==
    {k \in Stored(c) : \A j \in Stored(c) : c[k].created_at <= c[j].created_at}

\* min(keys, key = last_accessed): the first key in dict order among the
\* oldest; dict order is insertion order, which created_at does not fix
\* after an overwrite, so any of the oldest may be the one removed
OldestKeys(c) ==
    {k \in Stored(c) : \A j \in Stored(c) : c[k].last_accessed <= c[j].last_accessed}

_evict_oldest(c, victim) ==
    IF Stored(c) = {} THEN c ELSE [c EXCEPT ![victim] = Absent]

\* (mutation) room is made only once the cache is over capacity
MustEvict_OffByOne(c, key) == Cardinality(Stored(c)) > max_sessions /\ c[key] = Absent

MustEvict(c, key) == Cardinality(Stored(c)) >= max_sessions /\ c[key] = Absent

Victims(c, key) == IF MustEvict(c, key) /\ Stored(c) # {} THEN OldestKeys(c) ELSE {None}

\* SessionCache.set as a function of the cache: sweep, make room, insert
SetResult(c, lc, t, key, value, victim) ==
    LET swept == _lazy_cleanup(c, lc, t)
        room  == IF MustEvict(swept, key) THEN _evict_oldest(swept, victim) ELSE swept
    IN  [room EXCEPT ![key] = Entry(value, t)]

SetVictims(c, lc, t, key) == Victims(_lazy_cleanup(c, lc, t), key)

\* (mutation) a successful get that leaves last_accessed alone
GetResult_NoRefresh(c, t, key) ==
    IF c[key] = Absent THEN [cache |-> c, ret |-> None]
    ELSE IF _is_expired(c[key], t)
         THEN [cache |-> [c EXCEPT ![key] = Absent], ret |-> None]
         ELSE [cache |-> c, ret |-> c[key].data]

\* (mutation) a successful get stamps created_at instead of last_accessed
GetResult_CreatedAt(c, t, key) ==
    IF c[key] = Absent THEN [cache |-> c, ret |-> None]
    ELSE IF _is_expired(c[key], t)
         THEN [cache |-> [c EXCEPT ![key] = Absent], ret |-> None]
         ELSE [cache |-> [c EXCEPT ![key].created_at = t], ret |-> c[key].data]

GetResult(c, t, key) ==
    IF c[key] = Absent THEN [cache |-> c, ret |-> None]
    ELSE IF _is_expired(c[key], t)
         THEN [cache |-> [c EXCEPT ![key] = Absent], ret |-> None]
         ELSE [cache |-> [c EXCEPT ![key].last_accessed = t], ret |-> c[key].data]

\* (mutation) exists that counts as an access
ExistsResult_Refresh(c, t, key) ==
    IF c[key] = Absent THEN [cache |-> c, ret |-> FALSE]
    ELSE IF _is_expired(c[key], t)
         THEN [cache |-> [c EXCEPT ![key] = Absent], ret |-> FALSE]
         ELSE [cache |-> [c EXCEPT ![key].last_accessed = t], ret |-> TRUE]

ExistsResult(c, t, key) ==
    IF c[key] = Absent THEN [cache |-> c, ret |-> FALSE]
    ELSE IF _is_expired(c[key], t)
         THEN [cache |-> [c EXCEPT ![key] = Absent], ret |-> FALSE]
         ELSE [cache |-> c, ret |-> TRUE]

\* (mutation) delete reports success whether or not the key was stored
DeleteResult_AlwaysTrue(c, key) ==
    [cache |-> [c EXCEPT ![key] = Absent], ret |-> TRUE]

DeleteResult(c, key) ==
    IF c[key] # Absent THEN [cache |-> [c EXCEPT ![key] = Absent], ret |-> TRUE]
    ELSE [cache |-> c, ret |-> FALSE]

Max0(n) == IF n < 0 THEN 0 ELSE n

\* ttl_seconds - int(elapsed), floored at zero; NoInt (None) when the key is not stored
GetTtlResult(c, t, key) ==
    IF c[key] = Absent THEN NoInt
    ELSE Max0(ttl_seconds - ((t - c[key].last_accessed) \div TicksPerSecond))

\* (mutation) extend_ttl that also revives an expired entry
ExtendTtlResult_Revives(c, t, key) ==
    IF c[key] # Absent
    THEN [cache |-> [c EXCEPT ![key].last_accessed = t], ret |-> TRUE]
    ELSE [cache |-> c, ret |-> FALSE]

ExtendTtlResult(c, t, key) ==
    IF c[key] # Absent /\ ~_is_expired(c[key], t)
    THEN [cache |-> [c EXCEPT ![key].last_accessed = t], ret |-> TRUE]
    ELSE [cache |-> c, ret |-> FALSE]

CleanupCount(c, t) == Cardinality({k \in Stored(c) : _is_expired(c[k], t)})

\* ---- the cache operations as actions (each runs under the cache lock)
\* found: whether key was in self._cache when the operation began;
\* ret: the context returned (get); ok: the bool returned; n: the int returned
Op(name, key, r, b, n, victim) ==
    [op |-> name, key |-> key, ret |-> r, ok |-> b, n |-> n, evicted |-> victim,
     found |-> IF key = None THEN FALSE ELSE cache[key] # Absent,
     stale |-> IF victim = None THEN FALSE ELSE _is_expired(cache[victim], now)]

set(key, value) ==
    \E victim \in SetVictims(cache, last_cleanup, now, key) :
        /\ cache' = SetResult(cache, last_cleanup, now, key, value, victim)
        /\ last_cleanup' = IF LazySweepDue(last_cleanup, now) THEN now ELSE last_cleanup
        /\ last' = Op("set", key, None, FALSE, NoInt, victim)
        /\ UNCHANGED <<now, max_sessions, ttl_seconds, lock>>

get(key) ==
    /\ cache' = GetResult(cache, now, key).cache
    /\ last' = Op("get", key, GetResult(cache, now, key).ret, FALSE, NoInt, None)
    /\ UNCHANGED <<last_cleanup, now, max_sessions, ttl_seconds, lock>>

delete(key) ==
    /\ cache' = DeleteResult(cache, key).cache
    /\ last' = Op("delete", key, None, DeleteResult(cache, key).ret, NoInt, None)
    /\ UNCHANGED <<last_cleanup, now, max_sessions, ttl_seconds, lock>>

exists(key) ==
    /\ cache' = ExistsResult(cache, now, key).cache
    /\ last' = Op("exists", key, None, ExistsResult(cache, now, key).ret, NoInt, None)
    /\ UNCHANGED <<last_cleanup, now, max_sessions, ttl_seconds, lock>>

get_ttl(key) ==
    /\ last' = Op("get_ttl", key, None, FALSE, GetTtlResult(cache, now, key), None)
    /\ UNCHANGED <<cache, last_cleanup, now, max_sessions, ttl_seconds, lock>>

extend_ttl(key) ==
    /\ cache' = ExtendTtlResult(cache, now, key).cache
    /\ last' = Op("extend_ttl", key, None, ExtendTtlResult(cache, now, key).ret, NoInt, None)
    /\ UNCHANGED <<last_cleanup, now, max_sessions, ttl_seconds, lock>>

cleanup ==
    /\ cache' = _cleanup_expired(cache, now)
    /\ last' = Op("cleanup", None, None, FALSE, CleanupCount(cache, now), None)
    /\ UNCHANGED <<last_cleanup, now, max_sessions, ttl_seconds, lock>>

Tick ==
    /\ now < MaxTime
    /\ now' = now + 1
    /\ last' = Op("tick", None, None, FALSE, NoInt, None)
    /\ UNCHANGED <<cache, last_cleanup, max_sessions, ttl_seconds, lock>>

\* threading.RLock(): nobody holds it
NoLock == [owner |-> None, depth |-> 0]

CacheInit ==
    /\ cache = [k \in SessionIds |-> Absent]
    /\ lock = NoLock
    /\ last_cleanup = 0
    /\ now = 0
    /\ last = [op |-> "init", key |-> None, ret |-> None, ok |-> FALSE, n |-> NoInt,
               evicted |-> None, found |-> FALSE, stale |-> FALSE]

\* ConversationService pass-throughs to the cache
get_session(session_id) == get(session_id)

delete_session(session_id) == delete(session_id)

\* every caller stores a context under its own session_id, so the reference
\* stored under key k is k
CacheStep ==
    \/ \E k \in SessionIds : set(k, k)
    \/ \E k \in SessionIds : get_session(k)
    \/ \E k \in SessionIds : delete_session(k)
    \/ \E k \in SessionIds : exists(k)
    \/ \E k \in SessionIds : get_ttl(k)
    \/ \E k \in SessionIds : extend_ttl(k)
    \/ cleanup
    \/ Tick

CacheNext == CacheStep /\ UNCHANGED svcVars


\* ------------------------------------------------ claims on the cache
TtlTicks == ttl_seconds * TicksPerSecond

\* C1: the number of stored entries never exceeds max_sessions, whatever
\* sequence of set, get, delete, exists, get_ttl, extend_ttl and cleanup ran
\* (each runs under the cache lock, so an interleaving of threads is a sequence)
C1_CapacityBound == Cardinality(Stored(cache)) <= max_sessions

\* a set of a new key into a full cache has just evicted an entry
C1_Witness ==
    /\ last.op = "set"
    /\ last.evicted # None
    /\ Cardinality(Stored(cache)) = max_sessions

\* what set(key) finds after its lazy sweep, stated from the timestamps alone
SweptBy(c, lc, t) ==
    [k \in SessionIds |->
        IF /\ c[k] # Absent
           /\ (t - lc) >= cleanup_interval * TicksPerSecond
           /\ (t - c[k].last_accessed) > TtlTicks
        THEN Absent ELSE c[k]]

\* a set of a new key into a cache that is full after the sweep removes exactly
\* one entry, one of the oldest by last_accessed
EvictsExactlyTheOldest ==
    LET k     == last'.key
        swept == SweptBy(cache, last_cleanup, now)
    IN  (swept[k] = Absent /\ Cardinality(Stored(swept)) = max_sessions) =>
            \E r \in Stored(swept) :
                /\ \A j \in Stored(swept) : swept[r].last_accessed <= swept[j].last_accessed
                /\ Stored(cache') = (Stored(swept) \ {r}) \cup {k}

\* C2 as stated: a set of a new key into a full cache removes exactly one entry,
\* the oldest, and a set on a key already in the cache removes no other entry
C2_Original ==
    [][last'.op = "set" =>
        /\ EvictsExactlyTheOldest
        /\ cache[last'.key] # Absent =>
              \A j \in Stored(cache) \ {last'.key} : cache'[j] # Absent]_vars

\* C2 amended: a set of a new key into a full cache removes exactly one entry,
\* the oldest, and a set on a key already in the cache evicts nothing: the only
\* other entries it removes are expired ones that its lazy sweep removes
C2_EvictOldest ==
    [][last'.op = "set" =>
        /\ EvictsExactlyTheOldest
        /\ cache[last'.key] # Absent =>
              \A j \in Stored(cache) \ {last'.key} :
                  cache'[j] = Absent =>
                      /\ (now - last_cleanup) >= cleanup_interval * TicksPerSecond
                      /\ (now - cache[j].last_accessed) > TtlTicks]_vars

\* a new key was set into a full cache that held entries of different age, and
\* one entry was evicted for it
C2_Witness ==
    /\ last.op = "set"
    /\ ~last.found
    /\ last.evicted # None
    /\ \E j \in Stored(cache) \ {last.key} : cache[j].last_accessed < now

\* C3: get(key) returns the stored value iff an entry for key exists and
\* now - last_accessed <= ttl_seconds; otherwise it returns None, and an entry
\* that exists but is expired is removed by that same get
C3_GetIffLive ==
    [][last'.op = "get" =>
        LET k == last'.key
        IN  IF cache[k] # Absent /\ (now - cache[k].last_accessed) <= TtlTicks
            THEN last'.ret = cache[k].data /\ cache'[k] # Absent
            ELSE last'.ret = None /\ cache'[k] = Absent]_vars

\* a get found its entry expired, returned None and removed it
C3_Witness ==
    /\ last.op = "get"
    /\ last.found
    /\ last.ret = None
    /\ cache[last.key] = Absent

\* C4: expiry is sliding: a set and a successful get leave last_accessed at the
\* current time, get_ttl within the same second returns ttl_seconds, and an
\* entry is retrievable up to ttl_seconds after its last access, however long
\* ago it was created
C4_SlidingExpiry ==
    /\ (last.op = "set" \/ (last.op = "get" /\ last.ret # None)) =>
          /\ cache[last.key] # Absent
          /\ cache[last.key].last_accessed = now
          /\ GetTtlResult(cache, now, last.key) = ttl_seconds
    /\ (last.op = "get_ttl" /\ last.found) =>
          ((now - cache[last.key].last_accessed) < TicksPerSecond => last.n = ttl_seconds)
    /\ \A k \in Stored(cache) :
          (now - cache[k].last_accessed) <= TtlTicks =>
              GetResult(cache, now, k).ret = cache[k].data

\* a get succeeded on an entry created more than ttl_seconds ago
C4_Witness ==
    /\ last.op = "get"
    /\ last.ret # None
    /\ cache[last.key] # Absent
    /\ (now - cache[last.key].created_at) > TtlTicks

\* C5: delete_session on a stored session returns true and removes the entry, so
\* that get_session returns None afterwards; on a session that is not stored it
\* returns false and changes nothing; only a set stores an entry again
C5_DeleteTwice ==
    [][/\ last'.op = "delete" =>
            LET k == last'.key
            IN  /\ last'.ok = (cache[k] # Absent)
                /\ cache'[k] = Absent
                /\ GetResult(cache', now', k).ret = None
                /\ \A j \in SessionIds \ {k} : cache'[j] = cache[j]
                /\ cache[k] = Absent => cache' = cache
       /\ \A k \in SessionIds :
            (cache[k] = Absent /\ cache'[k] # Absent) =>
                (last'.op = "set" /\ last'.key = k)]_vars

\* delete_session returned true for a stored session, which is gone
C5_Witness ==
    /\ last.op = "delete"
    /\ last.found
    /\ last.ok
    /\ cache[last.key] = Absent

\* ------------------------------------------------ ConversationService
\* callers of the service: threads, or handlers that run to completion
Threads == {1, 2}

\* user texts; the second contains one of the words "ない", "特に", "なし",
\* "いらない", "直行" that process_message looks for in ASKING_OTHER_PREFERENCES
Texts == {"kyoto eki", "tokuni nai"}
NoPreferenceTexts == {"tokuni nai"}
\* texts sent while navigating that ask for another destination and for
\* another stopover
DestinationChangeTexts == {"mokutekichi wo kaetai"}
StopoverChangeTexts == {"tachiyori wo kaetai"}
\* None for an Optional[str] and for an Optional[PlaceInfo] over a text
NoText == "None"
\* what a request carries in current_location and in destination, if anything
RequestLocations == {NoText, "osaka eki"}
RequestDestinations == {NoText, " "}
\* texts that are empty once stripped
BlankTexts == {"", " "}

\* rag_results[:3]
SuggestionCap == 3
\* the most results the retrieval collaborator hands back in one search
MaxRag == 4
\* calls that append to a history begin only while it has at most this many entries
MaxMsgs == 14
\* messages in the history of the session of one dialogue
MaxDialogMsgs == 12
\* where any number of sessions come and go, histories stay this short
MaxSeqMsgs == 7
\* in a long dialogue the greeting and the timeouts come while the history is
\* shorter than this
EarlyMsgs == 2
\* where callers overlap, a call proceeds only while histories stay this short
MaxRaceMsgs == 4
\* turns of a dialogue that is replayed with other generated texts
MaxTurns == 6

\* the places retrieval ranks, by name; a search returns the n best of them
Places == 1..MaxRag
RagResults(n) == [i \in 1..n |-> i]
\* a stored document whose metadata has no place_name, and the "" that
\* metadata.get("place_name", "") yields for it
Unnamed == MaxRag + 1
EmptyName == ""
\* metadata.get("place_name", "") of a search result
PlaceNameOf(result) ==
    IF result = Unnamed THEN EmptyName ELSE "place " \o ToString(result)
\* what a search can return: the n best places, or only the unnamed document
Retrievals == {RagResults(n) : n \in 0..MaxRag} \cup {<<Unnamed>>}
\* if x: for an Optional[str]
Truthy(x) == x # NoText /\ x # EmptyName

NoCtx == [free |-> TRUE]

\* None for an Optional[PlaceInfo]
NoPlace == [none |-> TRUE]

\* (mutation) a context that starts with a turn already counted
NewContext_OneTurn(session_id) ==
    [session_id |-> session_id, messages |-> <<>>, turn_count |-> 1,
     phase |-> "waiting_location", current_location |-> NoText,
     destination |-> NoText, destination_info |-> NoPlace,
     additional_preferences |-> NoText, suggestions_list |-> <<>>,
     current_suggestion_index |-> 0, selected_stopover |-> NoText,
     selected_stopover_info |-> NoPlace]

\* ConversationContext(session_id = ...) with the defaults of its fields
NewContext(session_id) ==
    [session_id |-> session_id, messages |-> <<>>, turn_count |-> 0,
     phase |-> "waiting_location", current_location |-> NoText,
     destination |-> NoText, destination_info |-> NoPlace,
     additional_preferences |-> NoText, suggestions_list |-> <<>>,
     current_suggestion_index |-> 0, selected_stopover |-> NoText,
     selected_stopover_info |-> NoPlace]

\* (mutation) every entry is filed as the assistant's
ChatMessage_AllAssistant(role, content) == [role |-> "assistant"]

\* a history entry keeps who spoke; what was said is not modelled
ChatMessage(role, content) == [role |-> role]

SuggestingPhases == {"suggesting_first", "suggesting_second", "suggesting_third"}

\* geocoding_service.geocode(place_name): None for a blank name, else a
\* PlaceInfo with that name, whether or not the lookup found coordinates for it
geocode(place_name) ==
    IF place_name \in BlankTexts THEN NoPlace ELSE [name |-> place_name]

\* what llm_service.classify_user_response may answer
Classifications == {"affirmative", "negative", "undecided"}

\* (mutation) every retrieved place becomes a suggestion
TakeSuggestions_All(rag_results) == rag_results

\* (mutation) the last results are taken instead of the first
TakeSuggestions_Last(rag_results) ==
    LET taken == IF Len(rag_results) < SuggestionCap THEN Len(rag_results)
                 ELSE SuggestionCap
    IN  [i \in 1..taken |-> PlaceNameOf(rag_results[Len(rag_results) - taken + i])]

\* suggestions_list built from rag_results[:3]
TakeSuggestions(rag_results) ==
    LET taken == IF Len(rag_results) < SuggestionCap THEN Len(rag_results)
                 ELSE SuggestionCap
    IN  [i \in 1..taken |-> PlaceNameOf(rag_results[i])]

\* what one pass through the phase branch yields: the context after the
\* in-place updates, is_complete, and which reply is given
Outcome(context, is_complete, response_message, destination_info, stopover_info) ==
    [context |-> context, is_complete |-> is_complete,
     response_message |-> response_message,
     destination_info |-> destination_info, stopover_info |-> stopover_info]

\* ASKING_PREFERENCES, and ASKING_OTHER_PREFERENCES with a new wish: store the
\* wish, search, and start suggesting when anything was found
SearchAndSuggest(context, message, rag_results) ==
    LET wished == [context EXCEPT !.additional_preferences = message]
    IN  IF Len(rag_results) > 0
        THEN Outcome([wished EXCEPT !.suggestions_list = TakeSuggestions(rag_results),
                                    !.current_suggestion_index = 0,
                                    !.phase = "suggesting_first"],
                     FALSE, "suggestion", NoPlace, NoPlace)
        ELSE Outcome(wished, FALSE, "nothing found", NoPlace, NoPlace)

\* classification = "affirmative": the suggestion read at the start is selected
AcceptSuggestion(context, current_suggestion) ==
    LET chosen == [context EXCEPT !.selected_stopover = current_suggestion]
        destination_info == IF Truthy(chosen.destination)
                            THEN geocode(chosen.destination) ELSE NoPlace
        stopover_info == IF Truthy(chosen.selected_stopover)
                         THEN geocode(chosen.selected_stopover) ELSE NoPlace
        dest == IF Truthy(chosen.destination)
                THEN [chosen EXCEPT !.destination_info = destination_info] ELSE chosen
        stop == IF Truthy(chosen.selected_stopover)
                THEN [dest EXCEPT !.selected_stopover_info = stopover_info] ELSE dest
    IN  Outcome([stop EXCEPT !.phase = "navigating"], TRUE, "completed",
                destination_info, stopover_info)

\* (mutation) the same suggestion is offered again
RejectSuggestion_Stay(context) == Outcome(context, FALSE, "suggestion", NoPlace, NoPlace)

\* (mutation) the next suggestion is offered without looking whether there is one
RejectSuggestion_Unbounded(context) ==
    LET index == context.current_suggestion_index + 1
        moved == [context EXCEPT !.current_suggestion_index = index]
    IN  Outcome([moved EXCEPT !.phase = IF index = 1 THEN "suggesting_second"
                                        ELSE IF index = 2 THEN "suggesting_third"
                                        ELSE @],
                FALSE, "suggestion", NoPlace, NoPlace)

\* any other classification: on to the next suggestion, or out of suggestions
RejectSuggestion(context) ==
    LET index == context.current_suggestion_index + 1
        moved == [context EXCEPT !.current_suggestion_index = index]
    IN  IF index < Len(context.suggestions_list)
        THEN Outcome([moved EXCEPT !.phase = IF index = 1 THEN "suggesting_second"
                                             ELSE IF index = 2 THEN "suggesting_third"
                                             ELSE @],
                     FALSE, "suggestion", NoPlace, NoPlace)
        ELSE Outcome([moved EXCEPT !.phase = "asking_other_preferences"],
                     FALSE, "ask other preferences", NoPlace, NoPlace)

\* ASKING_OTHER_PREFERENCES with a text that says no further wish
GoDirect(context) ==
    LET destination_info == IF Truthy(context.destination)
                            THEN geocode(context.destination) ELSE NoPlace
        dest == IF Truthy(context.destination)
                THEN [context EXCEPT !.destination_info = destination_info] ELSE context
    IN  Outcome([dest EXCEPT !.phase = "navigating"], TRUE, "completed",
                destination_info, NoPlace)

\* WAITING_LOCATION: the text is the current location
StoreLocation(context, message) ==
    [context EXCEPT !.current_location = message, !.phase = "asking_destination"]

\* (mutation) the destination is taken but the phase stays
StoreDestination_Stay(context, message) == [context EXCEPT !.destination = message]

\* ASKING_DESTINATION: the text is the destination
StoreDestination(context, message) ==
    [context EXCEPT !.destination = message, !.phase = "asking_preferences"]

\* the if/elif chain of process_message over the phase read after the user
\* message was appended
PhaseBranch(context, phase, current_suggestion, message, rag_results, classification) ==
    IF phase = "waiting_location"
    THEN Outcome(StoreLocation(context, message),
                 FALSE, "ask destination", NoPlace, NoPlace)
    ELSE IF phase = "asking_destination"
    THEN Outcome(StoreDestination(context, message),
                 FALSE, "ask preferences", NoPlace, NoPlace)
    ELSE IF phase = "asking_preferences"
    THEN SearchAndSuggest(context, message, rag_results)
    ELSE IF phase \in SuggestingPhases
    THEN IF classification = "affirmative"
         THEN AcceptSuggestion(context, current_suggestion)
         ELSE RejectSuggestion(context)
    ELSE IF phase = "asking_other_preferences"
    THEN IF message \in NoPreferenceTexts
         THEN GoDirect(context)
         ELSE SearchAndSuggest(context, message, rag_results)
    ELSE Outcome(context, FALSE, "navigating", NoPlace, NoPlace)

\* the branches that call _search_relevant_places
Searches(phase, message) ==
    \/ phase = "asking_preferences"
    \/ phase = "asking_other_preferences" /\ message \notin NoPreferenceTexts

\* ---- the calls of the service, step by step
\* A call is cut where another caller can get in between: where it takes the
\* cache lock and where it waits for a collaborator.
\* Six entries are bookkeeping about the call, not variables of the code:
\* history (how many messages the session had when the call loaded it),
\* asked (the session_id the caller passed, which create_session replaces),
\* failures (the collaborators that raised during the call),
\* deleted (delete_session removed the call's session while the call was in
\* progress), base (the context, history aside, as the first of the overlapping
\* process_message calls on the session found it) and peer (the message of a
\* process_message call on the same session that returned while this one was
\* in progress).
NoPeer == [none |-> TRUE]
ManyPeers == [many |-> TRUE]

NoLoc ==
    [op |-> "none", session_id |-> None, message |-> NoText,
     current_location |-> NoText, destination |-> NoText, phase |-> "none",
     current_suggestion |-> NoText, is_complete |-> FALSE, response_message |-> "none",
     destination_info |-> NoPlace, stopover_info |-> NoPlace,
     rag_results |-> <<>>, classification |-> "none",
     deleted |-> FALSE, base |-> NoCtx, peer |-> NoPeer, history |-> NoInt,
     asked |-> None, failures |-> {}]

\* kind: "returned" (a value), "None" (None was returned) or "raised";
\* audio: what speech synthesis answered when the call asked it
NoResp ==
    [op |-> "none", kind |-> "none", session_id |-> None, turn_count |-> NoInt,
     is_complete |-> FALSE, ok |-> FALSE, suggestion_index |-> NoInt,
     suggestion_total |-> NoInt, destination |-> NoPlace, stopover |-> NoPlace,
     has_audio |-> FALSE, audio |-> "none"]

\* a call in progress has not returned anything yet
Goto(t, label, locals) ==
    /\ pc' = [pc EXCEPT ![t] = label]
    /\ loc' = [loc EXCEPT ![t] = locals]
    /\ resp' = [resp EXCEPT ![t] = NoResp]

Return(t, response) ==
    /\ pc' = [pc EXCEPT ![t] = "idle"]
    /\ loc' = [loc EXCEPT ![t] = NoLoc]
    /\ resp' = [resp EXCEPT ![t] = response]

Raise(t) == Return(t, [NoResp EXCEPT !.op = loc[t].op, !.kind = "raised",
                                     !.session_id = loc[t].session_id])

NoCacheOp == UNCHANGED <<cache, last_cleanup, now, max_sessions, ttl_seconds, lock, last>>

Same == UNCHANGED <<nextId, extra_allowed>>

\* the heap after a step that leaves the contexts h: a context that is neither
\* in the cache nor held by a call in progress is unreachable and is reclaimed
Heap(h) ==
    heap' = [k \in SessionIds |->
                IF \/ cache'[k] # Absent
                   \/ \E t \in Threads : pc'[t] # "idle" /\ loc'[t].session_id = k
                THEN h[k] ELSE NoCtx]

\* session ids a request can carry: None, or an id handed out before
Known == {None} \cup (1..nextId)

\* the history of the session a request names still has room for a call
Room(session_id) ==
    IF session_id = None THEN TRUE
    ELSE IF heap[session_id] = NoCtx THEN TRUE
    ELSE Len(heap[session_id].messages) + 2 <= MaxMsgs

\* the four lines of create_session: a fresh uuid4, a context, set
NewSession(session_id) ==
    /\ nextId < MaxIds
    /\ session_id = nextId + 1
    /\ nextId' = session_id
    /\ set(session_id, session_id)
    /\ UNCHANGED extra_allowed

create_session(t) ==
    /\ pc[t] = "idle"
    /\ \E session_id \in SessionIds :
        /\ NewSession(session_id)
        /\ Return(t, [NoResp EXCEPT !.op = "create_session", !.kind = "returned",
                                    !.session_id = session_id])
        /\ Heap([heap EXCEPT ![session_id] = NewContext(session_id)])

session_get(t, session_id) ==
    /\ pc[t] = "idle"
    /\ get_session(session_id)
    /\ Return(t, [NoResp EXCEPT !.op = "get_session",
                                !.kind = IF GetResult(cache, now, session_id).ret = None
                                         THEN "None" ELSE "returned",
                                !.session_id = session_id])
    /\ Same
    /\ Heap(heap)

session_delete(t, session_id) ==
    /\ pc[t] = "idle"
    /\ delete_session(session_id)
    /\ pc' = pc
    /\ resp' = [resp EXCEPT ![t] = [NoResp EXCEPT !.op = "delete_session",
                                                  !.kind = "returned",
                                                  !.session_id = session_id,
                                                  !.ok = DeleteResult(cache, session_id).ret]]
    /\ loc' = [o \in Threads |->
                 IF /\ pc[o] # "idle"
                    /\ loc[o].session_id = session_id
                    /\ DeleteResult(cache, session_id).ret
                 THEN [loc[o] EXCEPT !.deleted = TRUE] ELSE loc[o]]
    /\ Same
    /\ Heap(heap)

\* if not session_id or not self._cache.exists(session_id): of process_message
\* and get_welcome_message; without a session_id the session is created at once
Resolve(t, op, session_id, request, found, create) ==
    /\ pc[t] = "idle"
    /\ Room(session_id)
    /\ IF session_id = None
       THEN \E new \in SessionIds :
              /\ NewSession(new)
              /\ Goto(t, found, [NoLoc EXCEPT !.op = op, !.session_id = new,
                                              !.asked = session_id,
                                              !.message = request.message,
                                              !.current_location = request.current_location,
                                              !.destination = request.destination])
              /\ Heap([heap EXCEPT ![new] = NewContext(new)])
       ELSE /\ exists(session_id)
            /\ Goto(t, IF ExistsResult(cache, now, session_id).ret THEN found ELSE create,
                    [NoLoc EXCEPT !.op = op, !.session_id = session_id,
                                  !.asked = session_id,
                                  !.message = request.message,
                                  !.current_location = request.current_location,
                                  !.destination = request.destination])
            /\ Same
            /\ Heap(heap)

\* session_id = self.create_session(...), after exists returned False
Create(t, at, found) ==
    /\ pc[t] = at
    /\ \E new \in SessionIds :
        /\ NewSession(new)
        /\ Goto(t, found, [loc[t] EXCEPT !.session_id = new, !.deleted = FALSE])
        /\ Heap([heap EXCEPT ![new] = NewContext(new)])

\* ---- process_message
\* ChatRequest(message = ..., current_location = ..., destination = ...)
ChatRequest(message, current_location, destination) ==
    [message |-> message, current_location |-> current_location,
     destination |-> destination]

process_message_resolve(t, session_id, request) ==
    Resolve(t, "process_message", session_id, request, "pm_load", "pm_create")

process_message_create(t) == Create(t, "pm_create", "pm_load")

\* the process_message calls of other callers that hold the context of session_id
Overlapping(t, session_id) ==
    {o \in Threads \ {t} :
        pc[o] \in {"pm_branch", "pm_finish"} /\ loc[o].session_id = session_id}

\* a context, its history aside
Sans(context) == [context EXCEPT !.messages = <<>>]

\* context = self._cache.get(session_id), current_location and destination of
\* the request taken over when given, the user message appended, the phase
\* read, and in a SUGGESTING phase suggestions_list[current_suggestion_index]
\* read.  get returns None when the entry went away since exists, and the
\* first attribute access on None raises; an index past the list raises too.
process_message_load(t) ==
    /\ pc[t] = "pm_load"
    /\ get(loc[t].session_id)
    /\ Same
    /\ LET session_id == loc[t].session_id
           context == heap[session_id]
           heard == [context EXCEPT
                        !.current_location = IF loc[t].current_location # NoText
                                             THEN loc[t].current_location ELSE @,
                        !.destination = IF loc[t].destination # NoText
                                        THEN loc[t].destination ELSE @,
                        !.messages = Append(@, ChatMessage("user", loc[t].message))]
           others == Overlapping(t, session_id)
           first == CHOOSE o \in others : TRUE
       IN  IF GetResult(cache, now, session_id).ret = None
           THEN Raise(t) /\ Heap(heap)
           ELSE /\ IF /\ context.phase \in SuggestingPhases
                      /\ context.current_suggestion_index >= Len(context.suggestions_list)
                   THEN Raise(t)
                   ELSE Goto(t, "pm_branch",
                             [loc[t] EXCEPT
                                !.base = IF others = {} THEN Sans(context)
                                         ELSE loc[first].base,
                                !.peer = IF others = {} THEN NoPeer
                                         ELSE IF loc[first].peer = NoPeer THEN NoPeer
                                         ELSE ManyPeers,
                                !.history = Len(context.messages),
                                !.phase = context.phase,
                                !.current_suggestion =
                                    IF context.phase \in SuggestingPhases
                                    THEN context.suggestions_list[
                                             context.current_suggestion_index + 1]
                                    ELSE NoText])
                /\ Heap([heap EXCEPT ![session_id] = heard])

\* what vector_store.search answers: results, or an exception
Found(results) == [ok |-> TRUE, results |-> results]
SearchFailed == [ok |-> FALSE, results |-> <<>>]

\* _search_relevant_places: the results, [] when the search raised
_search_relevant_places(answer) == IF answer.ok THEN answer.results ELSE <<>>

\* the classifier raised instead of answering
ClassifierFailed == "failed"

\* the branch for the phase that was read: the collaborators answer (retrieval
\* with answer, the classifier) and the context is updated in place.  The
\* call to the classifier is not inside a try: when it raises, the call raises.
process_message_step(t, answer, classification) ==
    /\ pc[t] = "pm_branch"
    /\ LET session_id == loc[t].session_id
           rag_results == _search_relevant_places(answer)
           out == PhaseBranch(heap[session_id], loc[t].phase, loc[t].current_suggestion,
                              loc[t].message, rag_results, classification)
       IN  /\ NoCacheOp
           /\ Same
           /\ IF loc[t].phase \in SuggestingPhases /\ classification = ClassifierFailed
              THEN Raise(t) /\ Heap(heap)
              ELSE /\ Goto(t, "pm_finish",
                           [loc[t] EXCEPT
                              !.rag_results =
                                  IF Searches(loc[t].phase, loc[t].message)
                                  THEN rag_results ELSE <<>>,
                              !.failures =
                                  IF Searches(loc[t].phase, loc[t].message) /\ ~answer.ok
                                  THEN {"retrieval"} ELSE {},
                              !.classification =
                                  IF loc[t].phase \in SuggestingPhases
                                  THEN classification ELSE "none",
                              !.is_complete = out.is_complete,
                              !.response_message = out.response_message,
                              !.destination_info = out.destination_info,
                              !.stopover_info = out.stopover_info])
                   /\ Heap([heap EXCEPT ![session_id] = out.context])

\* the branch when the search answered with rag_results
process_message_branch(t, rag_results, classification) ==
    process_message_step(t, Found(rag_results), classification)

\* what text_to_speech answers: audio bytes, no bytes, or an exception (of
\* the synthesis or of the playback); "unavailable" when no key is configured
Spoken == "bytes"
SpeechOutcomes == {Spoken, "empty", "failed", "unavailable"}

\* the has_audio of _generate_audio
_generate_audio(speech) == speech = Spoken

\* the replies for which is_llm_generated is set
LlmGenerated ==
    {"suggestion", "nothing found", "completed", "ask other preferences"}

\* the ChatResponse of process_message and of generate_timeout_response
ChatResponse(op, context, is_complete, destination_info, stopover_info) ==
    LET shown == Len(context.suggestions_list) > 0 /\ ~is_complete
    IN  [op |-> op, kind |-> "returned", session_id |-> context.session_id,
         turn_count |-> context.turn_count, is_complete |-> is_complete, ok |-> FALSE,
         suggestion_index |-> IF shown THEN context.current_suggestion_index + 1
                              ELSE NoInt,
         suggestion_total |-> IF shown THEN Len(context.suggestions_list) ELSE NoInt,
         destination |-> destination_info, stopover |-> stopover_info,
         has_audio |-> FALSE, audio |-> "none"]

\* context.turn_count += 1
CountTurn(context) == [context EXCEPT !.turn_count = @ + 1]

\* the assistant message appended, context.last_ai_message assigned, the turn
\* counted, the context stored, the reply built.  ConversationContext declares
\* no field last_ai_message and sets no model configuration: pydantic's
\* BaseModel then rejects the assignment with ValueError (extra_allowed =
\* FALSE); only a model that allows extra attributes takes it (TRUE).
process_message_respond(t, speech) ==
    /\ pc[t] = "pm_finish"
    /\ Same
    /\ LET session_id == loc[t].session_id
           said == [heap[session_id] EXCEPT
                       !.messages = Append(@, ChatMessage("assistant",
                                                          loc[t].response_message))]
           counted == CountTurn(said)
           is_llm_generated == loc[t].response_message \in LlmGenerated
       IN  IF ~extra_allowed
           THEN /\ NoCacheOp
                /\ Raise(t)
                /\ Heap([heap EXCEPT ![session_id] = said])
           ELSE /\ set(session_id, session_id)
                /\ pc' = [pc EXCEPT ![t] = "idle"]
                /\ resp' = [resp EXCEPT ![t] =
                              [ChatResponse("process_message", counted, loc[t].is_complete,
                                            loc[t].destination_info, loc[t].stopover_info)
                                 EXCEPT !.has_audio = is_llm_generated
                                                        /\ _generate_audio(speech),
                                        !.audio = IF is_llm_generated THEN speech
                                                  ELSE "none"]]
                /\ loc' = [o \in Threads |->
                             IF o = t THEN NoLoc
                             ELSE IF o \in Overlapping(t, session_id)
                             THEN [loc[o] EXCEPT
                                     !.peer = IF @ = NoPeer
                                              THEN [message |-> loc[t].message]
                                              ELSE ManyPeers]
                             ELSE loc[o]]
                /\ Heap([heap EXCEPT ![session_id] = counted])

\* the end of the call when speech synthesis answers with audio
process_message_finish(t) == process_message_respond(t, Spoken)

\* ---- get_welcome_message
get_welcome_message_resolve(t, session_id) ==
    Resolve(t, "get_welcome_message", session_id, ChatRequest(NoText, NoText, NoText),
            "wm_load", "wm_create")

get_welcome_message_create(t) == Create(t, "wm_create", "wm_load")

\* (mutation) the greeting is appended and the phase is left as it was
Greet_KeepPhase(context) ==
    [context EXCEPT !.messages = Append(@, ChatMessage("assistant", "welcome"))]

\* context.phase = ConversationPhase.ASKING_DESTINATION and the greeting appended
Greet(context) ==
    [context EXCEPT !.phase = "asking_destination",
                    !.messages = Append(@, ChatMessage("assistant", "welcome"))]

\* context = self._cache.get(session_id), then the phase and the greeting; get
\* returns None when the entry went away since exists, and context.phase on
\* None raises
get_welcome_message_load(t) ==
    /\ pc[t] = "wm_load"
    /\ get(loc[t].session_id)
    /\ Same
    /\ LET session_id == loc[t].session_id
       IN  IF GetResult(cache, now, session_id).ret = None
           THEN Raise(t) /\ Heap(heap)
           ELSE /\ Goto(t, "wm_store",
                        [loc[t] EXCEPT !.history = Len(heap[session_id].messages)])
                /\ Heap([heap EXCEPT ![session_id] = Greet(@)])

get_welcome_message_store(t) ==
    /\ pc[t] = "wm_store"
    /\ set(loc[t].session_id, loc[t].session_id)
    /\ Return(t, [NoResp EXCEPT !.op = "get_welcome_message", !.kind = "returned",
                                !.session_id = loc[t].session_id, !.turn_count = 0,
                                !.has_audio = _generate_audio(Spoken),
                                !.audio = Spoken])
    /\ Same
    /\ Heap(heap)

\* ---- generate_timeout_response
generate_timeout_response_load(t, session_id) ==
    /\ pc[t] = "idle"
    /\ heap[session_id] # NoCtx => Len(heap[session_id].messages) + 1 <= MaxMsgs
    /\ get(session_id)
    /\ IF GetResult(cache, now, session_id).ret = None
       THEN Return(t, [NoResp EXCEPT !.op = "generate_timeout_response",
                                     !.kind = "None", !.session_id = session_id])
       ELSE Goto(t, "to_finish", [NoLoc EXCEPT !.op = "generate_timeout_response",
                                               !.session_id = session_id])
    /\ Same
    /\ Heap(heap)

\* (mutation) the repeated question counts as a turn
AskAgain_CountsTurn(context) ==
    [context EXCEPT !.messages = Append(@, ChatMessage("assistant", "timeout")),
                    !.turn_count = @ + 1]

\* the regenerated question appended to the history
AskAgain(context) ==
    [context EXCEPT !.messages = Append(@, ChatMessage("assistant", "timeout"))]

generate_timeout_response_finish(t) ==
    /\ pc[t] = "to_finish"
    /\ Same
    /\ LET session_id == loc[t].session_id
           said == AskAgain(heap[session_id])
       IN  /\ IF ~extra_allowed
              THEN Raise(t) /\ NoCacheOp
              ELSE /\ set(session_id, session_id)
                   /\ Return(t, [ChatResponse("generate_timeout_response", said,
                                              FALSE, NoPlace, NoPlace)
                                    EXCEPT !.has_audio = _generate_audio(Spoken),
                                           !.audio = Spoken])
           /\ Heap([heap EXCEPT ![session_id] = said])

\* ---- specifications
\* a connection that is not open: no session_id, nothing used on its behalf
NoConn == [stage |-> "closed", session_id |-> None, used |-> {}]

\* websocket_voice_endpoint before its timeout monitor is started; heard, sent
\* and delivered record when the last user message arrived, when the last
\* reply went out and when the last timeout response went out
NoVoice == [last_response_time |-> 0, timeout_task |-> "none", slept |-> 0,
            heard |-> NoInt, sent |-> NoInt, delivered |-> NoInt]

SvcInit ==
    /\ heap = [k \in SessionIds |-> NoCtx]
    /\ nextId = 0
    /\ pc = [t \in Threads |-> "idle"]
    /\ loc = [t \in Threads |-> NoLoc]
    /\ resp = [t \in Threads |-> NoResp]
    /\ conn = [c \in Threads |-> NoConn]
    /\ manager = [k \in SessionIds |-> None]
    /\ voice = [c \in Threads |-> NoVoice]

CacheSpecInit ==
    ttl_seconds = 1 /\ max_sessions \in {1, 2} /\ extra_allowed = FALSE /\ CacheInit /\ SvcInit

SpecCache == CacheSpecInit /\ [][CacheNext]_vars

Call(t) ==
    \/ create_session(t)
    \/ \E k \in 1..nextId : session_get(t, k)
    \/ \E k \in 1..nextId : session_delete(t, k)
    \/ \E k \in Known, m \in Texts :
          process_message_resolve(t, k, ChatRequest(m, NoText, NoText))
    \/ process_message_create(t)
    \/ process_message_load(t)
    \/ \E n \in 0..MaxRag, c \in Classifications :
          process_message_branch(t, RagResults(n), c)
    \/ process_message_finish(t)
    \/ \E k \in Known : get_welcome_message_resolve(t, k)
    \/ get_welcome_message_create(t)
    \/ get_welcome_message_load(t)
    \/ get_welcome_message_store(t)
    \/ \E k \in 1..nextId : generate_timeout_response_load(t, k)
    \/ generate_timeout_response_finish(t)

\* one caller at a time: every call runs from start to finish on its own
SeqInit == ttl_seconds = 1 /\ max_sessions = 1 /\ extra_allowed \in BOOLEAN /\ CacheInit /\ SvcInit

SeqHistories ==
    \A k \in SessionIds :
        heap[k] # NoCtx => Len(heap[k].messages) <= MaxSeqMsgs

SeqNext == Call(1) /\ SeqHistories' /\ UNCHANGED <<conn, manager, voice>>

SpecSeq == SeqInit /\ [][SeqNext]_vars

\* the history of the one session of a dialogue has room for another turn
DialogRoom(session_id) == Len(heap[session_id].messages) + 2 <= MaxDialogMsgs

\* one caller and one session: a dialogue from its first message on; a change
\* of destination or stopover is asked for once the session is navigating
DialogCall(t) ==
    \/ nextId = 0 /\ create_session(t)
    \/ \E k \in 1..nextId, m \in Texts, l \in RequestLocations, d \in RequestDestinations :
          /\ DialogRoom(k)
          /\ process_message_resolve(t, k, ChatRequest(m, l, d))
    \/ \E k \in 1..nextId, m \in DestinationChangeTexts \cup StopoverChangeTexts :
          /\ heap[k] # NoCtx
          /\ heap[k].phase = "navigating"
          /\ DialogRoom(k)
          /\ process_message_resolve(t, k, ChatRequest(m, NoText, NoText))
    \/ process_message_load(t)
    \/ \E r \in Retrievals, c \in Classifications : process_message_branch(t, r, c)
    \/ process_message_finish(t)
    \/ \E k \in 1..nextId :
          Len(heap[k].messages) < EarlyMsgs /\ get_welcome_message_resolve(t, k)
    \/ get_welcome_message_load(t)
    \/ get_welcome_message_store(t)
    \/ \E k \in 1..nextId :
          Len(heap[k].messages) < EarlyMsgs /\ generate_timeout_response_load(t, k)
    \/ generate_timeout_response_finish(t)

DialogInit == ttl_seconds = 1 /\ max_sessions = 1 /\ extra_allowed \in BOOLEAN /\ CacheInit /\ SvcInit

DialogNext == DialogCall(1) /\ UNCHANGED <<conn, manager, voice>>

SpecDialog == DialogInit /\ [][DialogNext]_vars

\* a session left alone while time passes: timeouts are answered, and the
\* session expires when nothing touches it for longer than ttl_seconds
Elapse == Tick /\ UNCHANGED svcVars

IdleCall(t) ==
    \/ nextId = 0 /\ create_session(t)
    \/ \E k \in 1..nextId, m \in Texts \ NoPreferenceTexts :
          process_message_resolve(t, k, ChatRequest(m, NoText, NoText))
    \/ process_message_create(t)
    \/ process_message_load(t)
    \/ \E n \in 0..MaxRag, c \in Classifications :
          process_message_branch(t, RagResults(n), c)
    \/ process_message_finish(t)
    \/ \E k \in 1..nextId : generate_timeout_response_load(t, k)
    \/ generate_timeout_response_finish(t)

IdleInit == ttl_seconds = 1 /\ max_sessions = 1 /\ extra_allowed \in BOOLEAN /\ CacheInit /\ SvcInit

IdleNext == (IdleCall(1) \/ Elapse) /\ SeqHistories' /\ UNCHANGED <<conn, manager, voice>>

SpecIdle == IdleInit /\ [][IdleNext]_vars

\* greetings asked for with no session_id, with the id of a live session and
\* with the id of a session that was deleted, evicted or has expired
GreetCall(t) ==
    \/ create_session(t)
    \/ \E k \in 1..nextId : session_delete(t, k)
    \/ \E k \in 1..nextId, m \in Texts \ NoPreferenceTexts :
          process_message_resolve(t, k, ChatRequest(m, NoText, NoText))
    \/ process_message_create(t)
    \/ process_message_load(t)
    \/ \E n \in 0..MaxRag, c \in Classifications :
          process_message_branch(t, RagResults(n), c)
    \/ process_message_finish(t)
    \/ \E k \in Known : get_welcome_message_resolve(t, k)
    \/ get_welcome_message_create(t)
    \/ get_welcome_message_load(t)
    \/ get_welcome_message_store(t)

GreetInit == ttl_seconds = 1 /\ max_sessions = 1 /\ extra_allowed \in BOOLEAN /\ CacheInit /\ SvcInit

GreetNext == (GreetCall(1) \/ Elapse) /\ SeqHistories' /\ UNCHANGED <<conn, manager, voice>>

SpecGreet == GreetInit /\ [][GreetNext]_vars

\* one caller and one session whose collaborators may fail: the search and
\* the classifier may raise, speech synthesis may raise or give nothing
FailCall(t) ==
    \/ nextId = 0 /\ create_session(t)
    \/ \E k \in 1..nextId, m \in Texts :
          process_message_resolve(t, k, ChatRequest(m, NoText, NoText))
    \/ process_message_load(t)
    \/ \E answer \in {Found(RagResults(n)) : n \in 0..MaxRag} \cup {SearchFailed},
          c \in Classifications \cup {ClassifierFailed} :
          process_message_step(t, answer, c)
    \/ \E speech \in SpeechOutcomes : process_message_respond(t, speech)

FailInit == ttl_seconds = 1 /\ max_sessions = 1 /\ extra_allowed \in BOOLEAN /\ CacheInit /\ SvcInit

FailNext == FailCall(1) /\ UNCHANGED <<conn, manager, voice>>

SpecFail == FailInit /\ [][FailNext]_vars

\* searches that find nothing or one place, any of the places
OnePlace == {<<>>} \cup {<<place>> : place \in Places}

\* one caller and one session that is greeted again once it is navigating, so
\* that a second journey is planned in the same session
AgainCall(t) ==
    \/ nextId = 0 /\ create_session(t)
    \/ \E k \in 1..nextId, m \in Texts \ NoPreferenceTexts :
          process_message_resolve(t, k, ChatRequest(m, NoText, NoText))
    \/ process_message_load(t)
    \/ \E r \in OnePlace, c \in Classifications : process_message_branch(t, r, c)
    \/ process_message_finish(t)
    \/ \E k \in 1..nextId :
          /\ heap[k].phase \in {"waiting_location", "navigating"}
          /\ get_welcome_message_resolve(t, k)
    \/ get_welcome_message_load(t)
    \/ get_welcome_message_store(t)

AgainInit == ttl_seconds = 1 /\ max_sessions = 1 /\ extra_allowed \in BOOLEAN /\ CacheInit /\ SvcInit

AgainNext == AgainCall(1) /\ UNCHANGED <<conn, manager, voice>>

SpecAgain == AgainInit /\ [][AgainNext]_vars

\* ---- the keyword matching of replies
\* a text as the sequence of its characters (a kana or a letter each)
Spelling(message) ==
    IF message = "iie" THEN <<"i", "i", "e">>
    ELSE IF message = "hai" THEN <<"ha", "i">>
    ELSE IF message = "NO" THEN <<"N", "O">>
    ELSE IF message = "ii ne" THEN <<"i", "i", "ne">>
    ELSE <<"kyo", "u", "to", "e", "ki">>

\* str.lower on one character
Lower(character) ==
    IF character = "N" THEN "n" ELSE IF character = "O" THEN "o" ELSE character

\* message.lower().strip(); none of the texts begins or ends with a blank
message_lower(message) == [i \in 1..Len(message) |-> Lower(message[i])]

\* word in message_lower
Contains(word, message) ==
    \E i \in 1..(Len(message) - Len(word) + 1) :
        SubSeq(message, i, i + Len(word) - 1) = word

\* of affirmative_words: hai, ii, ii ne
affirmative_words == {<<"ha", "i">>, <<"i", "i">>, <<"i", "i", "ne">>}
\* of negative_words: iie, no
negative_words == {<<"i", "i", "e">>, <<"n", "o">>}

_is_affirmative_response(message) ==
    \E word \in affirmative_words : Contains(word, message_lower(message))

_is_negative_response(message) ==
    \E word \in negative_words : Contains(word, message_lower(message))

\* replies to a suggestion
Replies == {"iie", "hai", "NO", "ii ne"}

\* one caller and one session with no language-model classifier at hand:
\* llm_service has no classify_user_response, so the call to it raises
KeywordCall(t) ==
    \/ nextId = 0 /\ create_session(t)
    \/ \E k \in 1..nextId, m \in Replies \cup (Texts \ NoPreferenceTexts) :
          /\ heap[k].turn_count < MaxTurns
          /\ m \in Replies <=> heap[k].phase \in SuggestingPhases
          /\ process_message_resolve(t, k, ChatRequest(m, NoText, NoText))
    \/ process_message_load(t)
    \/ \E r \in OnePlace : process_message_step(t, Found(r), ClassifierFailed)
    \/ process_message_finish(t)

KeywordInit == ttl_seconds = 1 /\ max_sessions = 1 /\ extra_allowed \in BOOLEAN /\ CacheInit /\ SvcInit

KeywordNext == KeywordCall(1) /\ UNCHANGED <<conn, manager, voice>>

SpecKeyword == KeywordInit /\ [][KeywordNext]_vars

\* ---- the cache operations with their lock
\* Every operation of SessionCache is `with self._lock:` around its body;
\* get_stats calls count, which takes the lock again, inside its own.
CacheOps == {"set", "get", "delete", "exists", "get_ttl", "extend_ttl",
             "count", "get_stats", "cleanup"}

\* (mutation) a threading.Lock: not even its holder can take it again
Acquirable_Lock(t) == lock.owner = None

\* threading.RLock: free, or held by the caller itself
Acquirable(t) == lock.owner = None \/ lock.owner = t

Acquire(t) ==
    /\ Acquirable(t)
    /\ lock' = [owner |-> t, depth |-> lock.depth + 1]

Release(t) ==
    lock' = IF lock.depth = 1 THEN NoLock ELSE [lock EXCEPT !.depth = @ - 1]

\* count: the entries that are not expired
Count(c, t) == Cardinality({k \in Stored(c) : ~_is_expired(c[k], t)})

\* the keys the operations are called with: two sessions are set, so that
\* the second set evicts, one of them is looked up, and three operations
\* take no key
KeysOf(op) ==
    IF op \in {"count", "get_stats", "cleanup"} THEN {None}
    ELSE IF op = "set" THEN {1, 2}
    ELSE {1}

LockIdle == UNCHANGED <<heap, nextId, extra_allowed, conn, manager, voice>>

\* a thread calls an operation and comes to its `with self._lock:`
cache_call(t, op, key) ==
    /\ pc[t] = "idle"
    /\ Goto(t, "with_lock", [NoLoc EXCEPT !.op = op, !.session_id = key])
    /\ UNCHANGED <<cache, last_cleanup, now, max_sessions, ttl_seconds, lock, last>>
    /\ LockIdle

cache_enter(t) ==
    /\ pc[t] = "with_lock"
    /\ Acquire(t)
    /\ Goto(t, "body", loc[t])
    /\ UNCHANGED <<cache, last_cleanup, now, max_sessions, ttl_seconds, last>>
    /\ LockIdle

\* the body of the operation, the lock held; get_stats goes on to call count
cache_body(t) ==
    /\ pc[t] = "body"
    /\ LET op == loc[t].op
           key == loc[t].session_id
       IN  /\ IF op = "set" THEN set(key, key)
              ELSE IF op = "get" THEN get(key)
              ELSE IF op = "delete" THEN delete(key)
              ELSE IF op = "exists" THEN exists(key)
              ELSE IF op = "get_ttl" THEN get_ttl(key)
              ELSE IF op = "extend_ttl" THEN extend_ttl(key)
              ELSE IF op = "cleanup" THEN cleanup
              ELSE /\ last' = Op(op, None, None, FALSE, Count(cache, now), None)
                   /\ UNCHANGED <<cache, last_cleanup, now, max_sessions, ttl_seconds, lock>>
           /\ Goto(t, IF op = "get_stats" THEN "count_lock" ELSE "leave", loc[t])
    /\ LockIdle

\* active = self.count() inside get_stats: `with self._lock:` once more
count_enter(t) ==
    /\ pc[t] = "count_lock"
    /\ Acquire(t)
    /\ Goto(t, "count_leave", loc[t])
    /\ UNCHANGED <<cache, last_cleanup, now, max_sessions, ttl_seconds, last>>
    /\ LockIdle

count_leave(t) ==
    /\ pc[t] = "count_leave"
    /\ Release(t)
    /\ Goto(t, "leave", loc[t])
    /\ UNCHANGED <<cache, last_cleanup, now, max_sessions, ttl_seconds, last>>
    /\ LockIdle

\* the end of the with block: the lock is released and the operation returns
cache_leave(t) ==
    /\ pc[t] = "leave"
    /\ Release(t)
    /\ Return(t, [NoResp EXCEPT !.op = loc[t].op, !.kind = "returned"])
    /\ UNCHANGED <<cache, last_cleanup, now, max_sessions, ttl_seconds, last>>
    /\ LockIdle

LockStep(t) ==
    \/ \E op \in CacheOps : \E key \in KeysOf(op) : cache_call(t, op, key)
    \/ cache_enter(t)
    \/ cache_body(t)
    \/ count_enter(t)
    \/ count_leave(t)
    \/ cache_leave(t)

\* a thread inside an operation takes its next step
Proceed(t) ==
    cache_enter(t) \/ cache_body(t) \/ count_enter(t) \/ count_leave(t) \/ cache_leave(t)

LockInit == ttl_seconds = 1 /\ max_sessions = 1 /\ extra_allowed = FALSE /\ CacheInit /\ SvcInit

LockNext == \E t \in Threads : LockStep(t)

SpecLock == LockInit /\ [][LockNext]_vars

\* a thread that can go on does go on, and a thread that waits for the lock
\* gets it when it is free again and again
SpecLockFair == SpecLock /\ \A t \in Threads : SF_vars(Proceed(t))

ShortHistories ==
    \A k \in SessionIds :
        heap[k] # NoCtx => Len(heap[k].messages) <= MaxRaceMsgs

\* delete_session by one caller while the calls of another are in progress
Writer(t) ==
    \/ create_session(t)
    \/ \E k \in Known, m \in Texts :
          process_message_resolve(t, k, ChatRequest(m, NoText, NoText))
    \/ process_message_create(t)
    \/ process_message_load(t)
    \/ \E n \in 0..MaxRag, c \in Classifications :
          process_message_branch(t, RagResults(n), c)
    \/ process_message_finish(t)
    \/ \E k \in Known : get_welcome_message_resolve(t, k)
    \/ get_welcome_message_create(t)
    \/ get_welcome_message_load(t)
    \/ get_welcome_message_store(t)
    \/ \E k \in 1..nextId : generate_timeout_response_load(t, k)
    \/ generate_timeout_response_finish(t)

ConcInit == ttl_seconds = 1 /\ max_sessions = 1 /\ extra_allowed \in BOOLEAN /\ CacheInit /\ SvcInit

ConcNext ==
    /\ \/ Writer(1)
       \/ \E k \in 1..nextId : session_delete(2, k)
    /\ ShortHistories'
    /\ UNCHANGED <<conn, manager, voice>>

SpecConc == ConcInit /\ [][ConcNext]_vars

\* process_message calls of two callers that overlap on one session
RaceCall(t) ==
    \/ nextId = 0 /\ create_session(t)
    \/ \E k \in 1..nextId, m \in Texts :
          process_message_resolve(t, k, ChatRequest(m, NoText, NoText))
    \/ process_message_load(t)
    \/ \E n \in 0..MaxRag, c \in Classifications :
          process_message_branch(t, RagResults(n), c)
    \/ process_message_finish(t)

RaceInit == ttl_seconds = 1 /\ max_sessions = 2 /\ extra_allowed \in BOOLEAN /\ CacheInit /\ SvcInit

RaceNext == (\E t \in Threads : RaceCall(t)) /\ ShortHistories' /\ UNCHANGED <<conn, manager, voice>>

SpecRace == RaceInit /\ [][RaceNext]_vars

\* ---- the WebSocket endpoints /ws/voice and /ws/chat
\* The handlers are coroutines on one event loop and the service calls are
\* synchronous: a service call of one connection runs to its end before any
\* other handler runs.
EventLoop(c) == \A o \in Threads \ {c} : pc[o] = "idle"

\* the endpoint is entered with the session_id of the query string, or None,
\* and looks the session up when it was given one
ws_connect(c, session_id) ==
    /\ conn[c].stage = "closed"
    /\ pc[c] = "idle"
    /\ IF session_id = None
       THEN /\ NoCacheOp
            /\ UNCHANGED <<heap, nextId, pc, loc, resp, extra_allowed>>
       ELSE session_get(c, session_id)
    /\ conn' = [conn EXCEPT ![c] = [stage |-> "accepted", session_id |-> session_id,
                                    used |-> {}]]
    /\ UNCHANGED <<manager, voice>>

\* welcome_response = conversation_service.get_welcome_message(session_id)
ws_welcome(c) ==
    /\ conn[c].stage = "accepted"
    /\ get_welcome_message_resolve(c, conn[c].session_id)
    /\ conn' = [conn EXCEPT ![c].stage = "welcoming",
                            ![c].used = @ \cup {loc'[c].session_id}]
    /\ UNCHANGED <<manager, voice>>

ws_welcome_create(c) ==
    /\ conn[c].stage = "welcoming"
    /\ get_welcome_message_create(c)
    /\ conn' = [conn EXCEPT ![c].used = @ \cup {loc'[c].session_id}]
    /\ UNCHANGED <<manager, voice>>

ws_welcome_load(c) ==
    /\ conn[c].stage = "welcoming"
    /\ get_welcome_message_load(c)
    /\ UNCHANGED <<conn, manager, voice>>

\* manager.active_connections[session_id] = websocket, and the entry under
\* the session_id the client asked for is dropped when the session got another
Register(m, c, original_session_id, session_id) ==
    [k \in SessionIds |->
        IF k = session_id THEN c
        ELSE IF original_session_id # None /\ k = original_session_id THEN None
        ELSE m[k]]

\* ConnectionManager.disconnect: the entry under session_id is dropped,
\* whichever connection it holds
disconnect(m, session_id) ==
    [k \in SessionIds |-> IF k = session_id THEN None ELSE m[k]]

\* session_id = welcome_response.session_id, and the connection is registered
ws_register(c) ==
    /\ conn[c].stage = "welcoming"
    /\ get_welcome_message_store(c)
    /\ conn' = [conn EXCEPT ![c].stage = "open", ![c].session_id = loc[c].session_id,
                            ![c].used = {loc[c].session_id}]
    /\ manager' = Register(manager, c, conn[c].session_id, loc[c].session_id)

ws_welcomed(c) == ws_register(c) /\ UNCHANGED voice

\* a text (or a transcription) arrives: process_message with the session_id of
\* the connection; an exception is caught and reported to the client
ws_text(c, message) ==
    /\ conn[c].stage = "open"
    /\ process_message_resolve(c, conn[c].session_id, ChatRequest(message, NoText, NoText))
    /\ UNCHANGED <<conn, manager, voice>>

ws_text_create(c) ==
    /\ process_message_create(c)
    /\ conn' = [conn EXCEPT ![c].used = @ \cup {loc'[c].session_id}]
    /\ UNCHANGED <<manager, voice>>

ws_text_step(c) ==
    /\ \/ process_message_load(c)
       \/ \E n \in 0..MaxRag, k \in Classifications :
              process_message_branch(c, RagResults(n), k)
       \/ process_message_finish(c)
    /\ UNCHANGED <<conn, manager, voice>>

\* /ws/voice: the timeout monitor found the user silent for USER_RESPONSE_TIMEOUT
ws_timeout(c) ==
    /\ conn[c].stage = "open"
    /\ \/ generate_timeout_response_load(c, conn[c].session_id)
       \/ generate_timeout_response_finish(c)
    /\ UNCHANGED <<conn, manager, voice>>

\* finally: manager.disconnect(session_id) and
\* conversation_service.delete_session(session_id)
ws_finally(c) ==
    /\ conn[c].stage = "open"
    /\ session_delete(c, conn[c].session_id)
    /\ conn' = [conn EXCEPT ![c].stage = "closed"]
    /\ manager' = disconnect(manager, conn[c].session_id)

ws_close(c) == ws_finally(c) /\ UNCHANGED voice

WsStep(c) ==
    \/ \E k \in Known : ws_connect(c, k)
    \/ ws_welcome(c)
    \/ ws_welcome_create(c)
    \/ ws_welcome_load(c)
    \/ ws_welcomed(c)
    \/ \E m \in Texts : ws_text(c, m)
    \/ ws_text_create(c)
    \/ ws_text_step(c)
    \/ ws_timeout(c)
    \/ ws_close(c)

WsInit == ttl_seconds = 1 /\ max_sessions = 1 /\ extra_allowed \in BOOLEAN /\ CacheInit /\ SvcInit

WsNext == (\E c \in Threads : EventLoop(c) /\ WsStep(c)) /\ ShortHistories'

SpecWs == WsInit /\ [][WsNext]_vars

\* ---- /ws/voice with its timeout monitor, on a clock in seconds
USER_RESPONSE_TIMEOUT == 180
\* await asyncio.sleep(10)
MonitorSleep == 10
\* the default of settings.SESSION_TTL_SECONDS
SESSION_TTL_SECONDS == 1800
\* the clock of the voice connection advances WaitSeconds at a time, up to
\* MaxVoiceSeconds
WaitSeconds == 5
MaxVoiceSeconds == 400

\* the monitor of connection c has slept its time and the event loop is free
\* to run it
MonitorDue(c) ==
    /\ voice[c].timeout_task = "running"
    /\ pc[c] = "idle"
    /\ now - voice[c].slept >= MonitorSleep * TicksPerSecond

\* time passes once the client has connected, between the service calls (they
\* are synchronous) and not while a monitor is due: the loop runs it first
Wait ==
    /\ nextId > 0
    /\ \A c \in Threads : pc[c] = "idle" /\ conn[c].stage \in {"open", "closed"}
    /\ \A c \in Threads : ~MonitorDue(c)
    /\ now + WaitSeconds * TicksPerSecond <= MaxVoiceSeconds * TicksPerSecond
    /\ now' = now + WaitSeconds * TicksPerSecond
    /\ last' = Op("tick", None, None, FALSE, NoInt, None)
    /\ UNCHANGED <<cache, last_cleanup, max_sessions, ttl_seconds, lock>>
    /\ UNCHANGED svcVars

\* last_response_time = datetime.now(); timeout_task = asyncio.create_task(...)
voice_welcomed(c) ==
    /\ ws_register(c)
    /\ voice' = [voice EXCEPT ![c] = [NoVoice EXCEPT !.last_response_time = now,
                                                     !.timeout_task = "running",
                                                     !.slept = now, !.sent = now]]

\* process_transcription: the timer is reset when the text arrives
voice_text(c, message) ==
    /\ conn[c].stage = "open"
    /\ process_message_resolve(c, conn[c].session_id, ChatRequest(message, NoText, NoText))
    /\ voice' = [voice EXCEPT ![c].last_response_time = now, ![c].heard = now]
    /\ UNCHANGED <<conn, manager>>

voice_text_step(c) ==
    /\ \/ process_message_load(c)
       \/ \E n \in 0..MaxRag, k \in Classifications :
              process_message_branch(c, RagResults(n), k)
    /\ UNCHANGED <<conn, manager, voice>>

\* process_transcription: the timer is reset again when process_message has
\* returned, and the reply goes to the connection registered for the session
voice_text_finish(c) ==
    /\ process_message_finish(c)
    /\ voice' = IF resp'[c].kind = "returned"
                THEN [voice EXCEPT ![c].last_response_time = now,
                                   ![c].sent = IF manager[conn[c].session_id] # None
                                               THEN now ELSE @]
                ELSE voice
    /\ UNCHANGED <<conn, manager>>

\* (mutation) the monitor measures from its own last sleep
TimedOut_SinceSleep(c) ==
    now - voice[c].slept >= MonitorSleep * TicksPerSecond

\* elapsed >= USER_RESPONSE_TIMEOUT
TimedOut(c) ==
    now - voice[c].last_response_time >= USER_RESPONSE_TIMEOUT * TicksPerSecond

\* timeout_monitor: one round of its loop after the sleep, up to the call of
\* conversation_service.generate_timeout_response
timeout_monitor(c) ==
    /\ conn[c].stage = "open"
    /\ MonitorDue(c)
    /\ IF TimedOut(c)
       THEN /\ generate_timeout_response_load(c, conn[c].session_id)
            /\ voice' = [voice EXCEPT ![c].slept = IF pc'[c] = "idle" THEN now ELSE @]
       ELSE /\ voice' = [voice EXCEPT ![c].slept = now]
            /\ NoCacheOp
            /\ UNCHANGED <<heap, nextId, pc, loc, resp, extra_allowed>>
    /\ UNCHANGED <<conn, manager>>

\* generate_timeout_response of the endpoint: the response is sent and the
\* timer reset, or the exception is logged; then the monitor sleeps again
timeout_respond(c) ==
    /\ voice[c].timeout_task = "running"
    /\ generate_timeout_response_finish(c)
    /\ voice' = IF resp'[c].kind = "returned"
                THEN [voice EXCEPT
                         ![c].last_response_time = now, ![c].slept = now,
                         ![c].sent = IF manager[conn[c].session_id] # None
                                     THEN now ELSE @,
                         ![c].delivered = IF manager[conn[c].session_id] # None
                                          THEN now ELSE @]
                ELSE [voice EXCEPT ![c].slept = now]
    /\ UNCHANGED <<conn, manager>>

\* finally: timeout_task.cancel(), then as /ws/chat
voice_close(c) ==
    /\ ws_finally(c)
    /\ voice' = [voice EXCEPT ![c].timeout_task = "cancelled"]

\* one client connects once, giving no session_id
VoiceCall(c) ==
    \/ nextId = 0 /\ ws_connect(c, None)
    \/ ws_welcome(c)
    \/ ws_welcome_create(c)
    \/ ws_welcome_load(c)
    \/ voice_welcomed(c)
    \/ \E m \in Texts : voice_text(c, m)
    \/ voice_text_step(c)
    \/ voice_text_finish(c)
    \/ timeout_monitor(c)
    \/ timeout_respond(c)
    \/ voice_close(c)

VoiceInit ==
    /\ ttl_seconds = SESSION_TTL_SECONDS /\ max_sessions = 1
    /\ extra_allowed \in BOOLEAN /\ CacheInit /\ SvcInit

VoiceNext == (VoiceCall(1) \/ Wait) /\ ShortHistories'

SpecVoice == VoiceInit /\ [][VoiceNext]_vars

\* ------------------------------------------- claims on overlapping calls
\* a step that ends a call whose session delete_session removed meanwhile, when
\* no other call on that session is left in progress
StaleCallEnds(t) ==
    /\ pc[t] # "idle"
    /\ pc'[t] = "idle"
    /\ loc[t].deleted
    /\ \A o \in Threads \ {t} :
          pc'[o] = "idle" \/ loc'[o].session_id # loc[t].session_id

\* C6: deletion is authoritative: when delete_session(id) completed while a
\* process_message, get_welcome_message or generate_timeout_response call on id
\* was in progress, the session is absent once those calls have ended
C6_DeletionAuthoritative ==
    [][\A t \in Threads :
          StaleCallEnds(t) => GetResult(cache', now', loc[t].session_id).ret = None]_vars

\* process_message run on its own from a context (history aside), given what
\* retrieval and the classifier answer
Serve(context, message, n, classification) ==
    LET suggesting == /\ context.phase \in SuggestingPhases
                      /\ context.current_suggestion_index < Len(context.suggestions_list)
        current_suggestion ==
            IF suggesting
            THEN context.suggestions_list[context.current_suggestion_index + 1]
            ELSE NoText
    IN  CountTurn(PhaseBranch(context, context.phase, current_suggestion, message,
                              RagResults(n), classification).context)

Answers == (0..MaxRag) \X Classifications

\* the contexts that processing first one message and then the other can yield
SerialOutcomes(base, m1, m2) ==
    {Serve(Serve(base, m1, a[1], a[2]), m2, b[1], b[2]) : a \in Answers, b \in Answers}
        \cup
    {Serve(Serve(base, m2, a[1], a[2]), m1, b[1], b[2]) : a \in Answers, b \in Answers}

\* the second of two overlapping process_message calls on a session returns
PairEnds(t) ==
    /\ pc[t] = "pm_finish"
    /\ pc'[t] = "idle"
    /\ resp'[t].kind = "returned"
    /\ loc[t].peer # NoPeer
    /\ loc[t].peer # ManyPeers

C8_NothingLeftAfterClose ==
    \A c \in Threads :
        conn[c].stage = "closed" => \A k \in conn[c].used : cache[k] = Absent

\* ------------------------------------------- claims on sequential use
InProcessMessage == {"pm_create", "pm_load", "pm_branch", "pm_finish"}

\* the contexts that exist
Contexts == {k \in SessionIds : heap[k] # NoCtx}

\* a step that ends a process_message call finds the session's turn_count one
\* higher than the call found it; a step of get_welcome_message or of
\* generate_timeout_response changes no turn_count
TurnCountedStep ==
    /\ (pc[1] \in InProcessMessage /\ pc'[1] = "idle") =>
          LET session_id == loc[1].session_id
          IN  /\ heap'[session_id] # NoCtx
              /\ heap[session_id] # NoCtx
              /\ heap'[session_id].turn_count = heap[session_id].turn_count + 1
    /\ (\/ loc[1].op \in {"get_welcome_message", "generate_timeout_response"}
        \/ loc'[1].op \in {"get_welcome_message", "generate_timeout_response"}) =>
          \A k \in Contexts :
              heap'[k] # NoCtx => heap'[k].turn_count = heap[k].turn_count

\* C9: in sequential use of one session every process_message call increases
\* the session's turn_count by exactly 1, and get_welcome_message and
\* generate_timeout_response never change it
C9_TurnCountPerCall == [][TurnCountedStep]_vars

\* C10: in every context reached by sequences of create_session,
\* get_welcome_message, process_message and generate_timeout_response there
\* are at most three suggestions and 0 <= current_suggestion_index <= their number
C10_SuggestionBounds ==
    \A k \in Contexts :
        /\ Len(heap[k].suggestions_list) <= SuggestionCap
        /\ 0 <= heap[k].current_suggestion_index
        /\ heap[k].current_suggestion_index <= Len(heap[k].suggestions_list)

\* every suggestion of a list was declined: the index stands at the length of
\* the list, and the session asks for other wishes
C10_Witness ==
    \E k \in Contexts :
        /\ heap[k].phase = "asking_other_preferences"
        /\ Len(heap[k].suggestions_list) > 0
        /\ heap[k].current_suggestion_index = Len(heap[k].suggestions_list)

\* ------------------------------------------- claims on the dialogue
\* a step that ends a process_message call which went through its phase branch
ProcessMessageEnds == pc[1] = "pm_finish" /\ pc'[1] = "idle"

\* the context of that call: as the call found it (history aside), and as the
\* call leaves it
Before == loc[1].base
After == heap'[loc[1].session_id]

\* C11: process_message on a session in WAITING_LOCATION stores the text as
\* current_location and moves to ASKING_DESTINATION, and on a session in
\* ASKING_DESTINATION stores the text as destination and moves to
\* ASKING_PREFERENCES; neither reports is_complete or touches suggestions_list
C11_LocationThenDestination ==
    [][ProcessMessageEnds =>
         /\ loc[1].phase = "waiting_location" =>
               /\ After.current_location = loc[1].message
               /\ After.phase = "asking_destination"
         /\ loc[1].phase = "asking_destination" =>
               /\ After.destination = loc[1].message
               /\ After.phase = "asking_preferences"
         /\ loc[1].phase \in {"waiting_location", "asking_destination"} =>
               /\ ~resp'[1].is_complete
               /\ After.suggestions_list = Before.suggestions_list
               /\ After.current_suggestion_index = Before.current_suggestion_index]_vars

\* two messages were taken, one as the location and one as the destination,
\* and the second call has returned
C11_Witness ==
    /\ pc[1] = "idle"
    /\ resp[1].op = "process_message"
    /\ resp[1].kind = "returned"
    /\ \E k \in Contexts :
          /\ heap[k].phase = "asking_preferences"
          /\ heap[k].current_location = "tokuni nai"
          /\ heap[k].destination = "kyoto eki"
          /\ heap[k].turn_count = 2

\* the first up-to-3 candidates of a search, in retrieval order
FirstCandidates(rag_results) ==
    [i \in 1..(IF Len(rag_results) < 3 THEN Len(rag_results) ELSE 3) |->
        PlaceNameOf(rag_results[i])]

\* C12: when retrieval returns at least one candidate for a message in
\* ASKING_PREFERENCES, or for a new preference in ASKING_OTHER_PREFERENCES,
\* process_message replaces suggestions_list with the first up-to-3 candidates
\* in retrieval order, sets current_suggestion_index to 0 and moves to
\* SUGGESTING_FIRST, without reporting is_complete
C12_CandidatesBecomeSuggestions ==
    [][(/\ ProcessMessageEnds
        /\ Searches(loc[1].phase, loc[1].message)
        /\ Len(loc[1].rag_results) > 0) =>
         /\ After.suggestions_list = FirstCandidates(loc[1].rag_results)
         /\ After.current_suggestion_index = 0
         /\ After.phase = "suggesting_first"
         /\ After.additional_preferences = loc[1].message
         /\ ~resp'[1].is_complete]_vars

\* a new preference given after every suggestion of a first search was
\* declined: the second search found more than three places, the first three
\* are the suggestions, and the first of them is offered
C12_Witness ==
    /\ pc[1] = "idle"
    /\ resp[1].op = "process_message"
    /\ resp[1].kind = "returned"
    /\ resp[1].suggestion_index = 1
    /\ resp[1].suggestion_total = 3
    /\ \E k \in Contexts :
          /\ heap[k].phase = "suggesting_first"
          /\ heap[k].suggestions_list = <<"place 1", "place 2", "place 3">>
          /\ heap[k].current_suggestion_index = 0
          /\ heap[k].turn_count >= 5

\* C13: when retrieval returns no candidates (or fails, which
\* _search_relevant_places turns into no candidates) for a message in
\* ASKING_PREFERENCES or for a new preference in ASKING_OTHER_PREFERENCES, the
\* reply has is_complete = true, no stopover is selected and the phase becomes
\* NAVIGATING
C13_NothingFoundCompletes ==
    [][(/\ ProcessMessageEnds
        /\ Searches(loc[1].phase, loc[1].message)
        /\ Len(loc[1].rag_results) = 0) =>
         /\ resp'[1].is_complete
         /\ After.phase = "navigating"
         /\ After.selected_stopover = Before.selected_stopover
         /\ resp'[1].stopover = NoPlace]_vars

\* a process_message call on a session in a SUGGESTING phase ends
SuggestionAnswered == ProcessMessageEnds /\ loc[1].phase \in SuggestingPhases

\* the place name of suggestions_list[current_suggestion_index] as the call
\* found the session
Offered == Before.suggestions_list[Before.current_suggestion_index + 1]

\* C14: in a SUGGESTING phase a reply classified affirmative sets
\* selected_stopover to the place name of
\* suggestions_list[current_suggestion_index], returns is_complete = true with
\* stopover.name equal to that place name, moves the phase to NAVIGATING and
\* leaves suggestions_list and current_suggestion_index unchanged
C14_AcceptedSuggestion ==
    [][(SuggestionAnswered /\ loc[1].classification = "affirmative") =>
         /\ After.selected_stopover = Offered
         /\ resp'[1].kind = "returned"
         /\ resp'[1].is_complete
         /\ resp'[1].stopover # NoPlace
         /\ resp'[1].stopover.name = Offered
         /\ After.phase = "navigating"
         /\ After.suggestions_list = Before.suggestions_list
         /\ After.current_suggestion_index = Before.current_suggestion_index]_vars

\* the SUGGESTING phase in which suggestions_list[index] is offered
SuggestingPhaseFor(index) ==
    IF index = 0 THEN "suggesting_first"
    ELSE IF index = 1 THEN "suggesting_second"
    ELSE "suggesting_third"

\* C15: in a SUGGESTING phase a reply classified negative advances
\* current_suggestion_index by exactly 1; if the new index is below
\* len(suggestions_list) the phase becomes the SUGGESTING phase for that index,
\* otherwise ASKING_OTHER_PREFERENCES; and whenever a suggestion is on offer
\* its index is below len(suggestions_list), so no more candidates are offered
\* than the retrieval gave
C15_DeclinedSuggestion ==
    [][/\ (SuggestionAnswered /\ loc[1].classification = "negative") =>
            /\ After.current_suggestion_index = Before.current_suggestion_index + 1
            /\ After.suggestions_list = Before.suggestions_list
            /\ After.phase =
                  IF After.current_suggestion_index < Len(After.suggestions_list)
                  THEN SuggestingPhaseFor(After.current_suggestion_index)
                  ELSE "asking_other_preferences"
       /\ \A k \in SessionIds :
            (heap'[k] # NoCtx /\ heap'[k].phase \in SuggestingPhases) =>
                /\ heap'[k].current_suggestion_index < Len(heap'[k].suggestions_list)
                /\ heap'[k].phase = SuggestingPhaseFor(heap'[k].current_suggestion_index)
      ]_vars

\* three candidates were declined one after the other: the third reply to a
\* suggestion came in SUGGESTING_THIRD and left the session asking for other
\* preferences with the index past the end of the list
C15_Witness ==
    /\ pc[1] = "idle"
    /\ resp[1].op = "process_message"
    /\ \E k \in Contexts :
          /\ heap[k].phase = "asking_other_preferences"
          /\ Len(heap[k].suggestions_list) = 3
          /\ heap[k].current_suggestion_index = 3
          /\ heap[k].selected_stopover = NoText

\* C16: if the classifier cannot decide (its result for a reply in a
\* SUGGESTING phase is neither affirmative nor negative), process_message
\* re-prompts: phase and current_suggestion_index stay unchanged and
\* is_complete is false
C16_UndecidedReprompts ==
    [][(SuggestionAnswered /\ loc[1].classification \notin {"affirmative", "negative"}) =>
         /\ After.phase = loc[1].phase
         /\ After.current_suggestion_index = Before.current_suggestion_index
         /\ ~resp'[1].is_complete]_vars

\* a process_message call ends that found the session in
\* ASKING_OTHER_PREFERENCES and was told that there is no further wish
NoFurtherWish ==
    /\ ProcessMessageEnds
    /\ loc[1].phase = "asking_other_preferences"
    /\ loc[1].message \in NoPreferenceTexts

\* C17: in ASKING_OTHER_PREFERENCES a reply that declines any further
\* preference yields is_complete = true, moves the phase to NAVIGATING, sets no
\* stopover (none in the reply, selected_stopover not modified) and returns the
\* resolved destination whenever the session has a non-empty destination
C17_DirectToDestination ==
    [][NoFurtherWish =>
         /\ resp'[1].kind = "returned"
         /\ resp'[1].is_complete
         /\ After.phase = "navigating"
         /\ resp'[1].stopover = NoPlace
         /\ After.selected_stopover = Before.selected_stopover
         /\ Truthy(After.destination) =>
               /\ resp'[1].destination # NoPlace
               /\ resp'[1].destination.name = After.destination]_vars

\* the phases in which a stopover is being settled
SettlingPhases == SuggestingPhases \cup {"asking_preferences", "asking_other_preferences"}

\* the call that ends moved the session from one of those phases into NAVIGATING
EntersNavigating ==
    /\ ProcessMessageEnds
    /\ loc[1].phase \in SettlingPhases
    /\ After.phase = "navigating"

\* C18: is_complete is an event flag: a process_message call reports
\* is_complete = true if and only if that call moved the session from a
\* suggestion or preference phase into NAVIGATING (so a later process_message in
\* NAVIGATING reports false), and the replies of get_welcome_message and
\* generate_timeout_response always have is_complete = false
C18_CompleteIsAnEvent ==
    [][/\ (pc[1] # "idle" /\ pc'[1] = "idle" /\ loc[1].op = "process_message") =>
            (resp'[1].is_complete <=> EntersNavigating)
       /\ resp'[1].op \in {"get_welcome_message", "generate_timeout_response"} =>
            ~resp'[1].is_complete]_vars

\* C19: in NAVIGATING a destination-change message moves the session to
\* CONFIRMING_DESTINATION_CHANGE, from which the next message replaces
\* destination and returns to NAVIGATING; a stopover-change message moves it to
\* CONFIRMING_STOPOVER_CHANGE when retrieval finds candidates (and leaves it in
\* NAVIGATING otherwise); any other message leaves the phase NAVIGATING
C19_LiveChanges ==
    [][ProcessMessageEnds =>
         /\ (loc[1].phase = "navigating" /\ loc[1].message \in DestinationChangeTexts) =>
               After.phase = "confirming_destination_change"
         /\ loc[1].phase = "confirming_destination_change" =>
               /\ After.destination = loc[1].message
               /\ After.phase = "navigating"
         /\ (loc[1].phase = "navigating" /\ loc[1].message \in StopoverChangeTexts) =>
               After.phase \in {"confirming_stopover_change", "navigating"}
         /\ (/\ loc[1].phase = "navigating"
             /\ loc[1].message \notin DestinationChangeTexts \cup StopoverChangeTexts) =>
               After.phase = "navigating"]_vars

\* ------------------------------------------- claims on timeouts
\* what a timeout response has to leave alone
Frame(context) ==
    <<context.phase, context.turn_count, context.suggestions_list,
      context.current_suggestion_index, context.destination, context.selected_stopover>>

\* generate_timeout_response is called for a session that get does not return
TimeoutForAbsent ==
    /\ pc[1] = "idle"
    /\ last'.op = "get"
    /\ \/ loc'[1].op = "generate_timeout_response"
       \/ pc'[1] = "idle" /\ resp'[1].op = "generate_timeout_response"
    /\ GetResult(cache, now, last'.key).ret = None

\* C20: generate_timeout_response on a live session leaves phase, turn_count,
\* suggestions_list, current_suggestion_index, destination and
\* selected_stopover unchanged, however often it is called in a row, and on a
\* session that does not exist or is expired it returns None without creating
\* any cache entry
C20_TimeoutKeepsState ==
    [][/\ (\/ loc[1].op = "generate_timeout_response"
           \/ loc'[1].op = "generate_timeout_response") =>
            \A k \in SessionIds :
                (heap[k] # NoCtx /\ heap'[k] # NoCtx) => Frame(heap'[k]) = Frame(heap[k])
       /\ TimeoutForAbsent =>
            /\ pc'[1] = "idle"
            /\ resp'[1].kind = "None"
            /\ Stored(cache') \subseteq Stored(cache)
            /\ cache'[last'.key] = Absent]_vars

\* two timeout responses in a row on a session that waits for the user's
\* wishes after two turns
C20_Witness ==
    /\ pc[1] = "idle"
    /\ resp[1].op = "generate_timeout_response"
    /\ resp[1].kind = "returned"
    /\ resp[1].turn_count = 2
    /\ \E k \in Contexts :
          LET messages == heap[k].messages
          IN  /\ heap[k].phase = "asking_preferences"
              /\ heap[k].turn_count = 2
              /\ Len(messages) = 6
              /\ messages[5].role = "assistant"
              /\ messages[6].role = "assistant"

\* ------------------------------------------- claims on the history
\* a history that continues another
IsPrefix(old, new) == Len(old) <= Len(new) /\ SubSeq(new, 1, Len(old)) = old

\* the last entries of the history a call leaves, after the ones it found
Appended == SubSeq(After.messages, loc[1].history + 1, Len(After.messages))

\* C21: the history is append-only and ordered: each successful
\* process_message appends exactly two entries, the user message first and the
\* assistant reply second, each get_welcome_message appends exactly one, and no
\* operation removes or reorders the entries a session already has
C21_HistoryAppendOnly ==
    [][/\ \A k \in SessionIds :
            (heap[k] # NoCtx /\ heap'[k] # NoCtx) =>
                IsPrefix(heap[k].messages, heap'[k].messages)
       /\ (ProcessMessageEnds /\ resp'[1].kind = "returned") =>
            Appended = <<[role |-> "user"], [role |-> "assistant"]>>
       /\ (pc[1] = "wm_store" /\ pc'[1] = "idle") =>
            Appended = <<[role |-> "assistant"]>>]_vars

\* a greeting, then a turn that returned, then a timeout response: four
\* entries in the order in which they were made
C21_Witness ==
    /\ pc[1] = "idle"
    /\ resp[1].op = "generate_timeout_response"
    /\ resp[1].kind = "returned"
    /\ \E k \in Contexts :
          /\ heap[k].turn_count = 1
          /\ heap[k].messages = <<[role |-> "assistant"], [role |-> "user"],
                                  [role |-> "assistant"], [role |-> "assistant"]>>

\* ------------------------------------------ claims on the sessions
\* an entry that get would return at time t
Live(c, t, key) == c[key] # Absent /\ ~_is_expired(c[key], t)

GreetingResolves == pc[1] = "idle" /\ pc'[1] \in {"wm_load", "wm_create"}
GreetingReturns == pc[1] = "wm_store" /\ pc'[1] = "idle"

\* C22: get_welcome_message goes on with the session_id it was given when that
\* names a live entry, and with a newly created session when the id is
\* missing, unknown or expired; when it returns, the session_id of the reply
\* names a live cache entry whose context is in phase ASKING_DESTINATION and
\* whose history is the one it found with the greeting appended.
C22_GreetingSession ==
    [][/\ GreetingResolves =>
            LET asked == loc'[1].asked
            IN  IF asked # None /\ Live(cache, now, asked)
                THEN pc'[1] = "wm_load" /\ loc'[1].session_id = asked
                ELSE \/ pc'[1] = "wm_create"
                     \/ /\ loc'[1].session_id = nextId + 1
                        /\ Live(cache', now', nextId + 1)
       /\ (pc[1] = "wm_create" /\ pc'[1] = "wm_load") =>
            /\ loc'[1].session_id = nextId + 1
            /\ Live(cache', now', nextId + 1)
       /\ GreetingReturns =>
            LET session_id == resp'[1].session_id
            IN  /\ resp'[1].kind = "returned"
                /\ session_id = loc[1].session_id
                /\ Live(cache', now', session_id)
                /\ heap'[session_id].phase = "asking_destination"
                /\ Len(heap'[session_id].messages) = loc[1].history + 1
                /\ heap'[session_id].messages[loc[1].history + 1] =
                       [role |-> "assistant"]]_vars

\* a greeting has returned for the session it was asked for, which had been
\* through two turns and is back at the question for the destination
C22_Witness ==
    /\ pc[1] = "idle"
    /\ resp[1].op = "get_welcome_message"
    /\ resp[1].kind = "returned"
    /\ resp[1].session_id = 1
    /\ Live(cache, now, 1)
    /\ heap[1].turn_count = 2
    /\ heap[1].phase = "asking_destination"
    /\ Len(heap[1].messages) = 5
    /\ now > TtlTicks

\* a step in which create_session ran, called directly or by process_message
\* or get_welcome_message
SessionCreated == nextId' # nextId

\* C23: create_session succeeds also when the cache holds max_sessions entries
\* (an entry is evicted), its id differs from every id handed out before, and
\* get_session on that id right afterwards returns the context with that
\* session_id, phase WAITING_LOCATION, turn_count 0 and no messages.
C23_CreateSession ==
    [][/\ SessionCreated =>
            LET session_id == nextId'
                got == GetResult(cache', now', session_id)
            IN  /\ session_id \notin 1..nextId
                /\ Cardinality(Stored(cache')) <= max_sessions
                /\ got.ret = session_id
                /\ heap'[got.ret].session_id = session_id
                /\ heap'[got.ret].phase = "waiting_location"
                /\ heap'[got.ret].turn_count = 0
                /\ heap'[got.ret].messages = <<>>
       /\ (pc[1] = "idle" /\ resp'[1] # resp[1] /\ resp'[1].op = "create_session") =>
            /\ resp'[1].kind = "returned"
            /\ SessionCreated
            /\ resp'[1].session_id = nextId']_vars

\* create_session has returned the id of a session for which the entry of
\* session 1 was evicted from the full cache
C23_Witness ==
    /\ pc[1] = "idle"
    /\ resp[1].op = "create_session"
    /\ resp[1].kind = "returned"
    /\ resp[1].session_id = 2
    /\ last.op = "set" /\ last.key = 2 /\ last.evicted = 1 /\ last.found = FALSE
    /\ Stored(cache) = {2}
    /\ heap[2] = NewContext(2)

\* C24: process_message never fails because the session is absent: when the
\* entry of its session is not in the cache at the moment the context is
\* loaded (it was deleted, evicted or swept since the session was resolved),
\* the message is processed against a newly created session in the initial
\* phase.
C24_AbsentSessionIsCreated ==
    [][(/\ pc[1] = "pm_load"
        /\ pc'[1] # "pm_load"
        /\ ~Live(cache, now, loc[1].session_id)) =>
            /\ pc'[1] = "pm_branch"
            /\ loc'[1].session_id = nextId'
            /\ nextId' = nextId + 1
            /\ loc'[1].phase = "waiting_location"]_vars

\* ------------------------------------- claims on get_ttl, extend_ttl, cleanup
\* an entry is stored under key and more than ttl_seconds have passed since
\* its last access
Expired(c, t, key) == c[key] # Absent /\ t - c[key].last_accessed > TtlTicks

\* the whole seconds left to the entry stored under key
Remaining(c, t, key) ==
    Max0(ttl_seconds - ((t - c[key].last_accessed) \div TicksPerSecond))

\* C25: get_ttl returns None exactly when get at the same instant would
\* return None (no entry, or an expired one), and otherwise the seconds left,
\* floored at zero; it changes nothing in the cache.
C25_TtlAbsentLikeGet ==
    [][last'.op = "get_ttl" =>
          LET key == last'.key
          IN  /\ (last'.n = NoInt) <=> (cache[key] = Absent \/ Expired(cache, now, key))
              /\ last'.n # NoInt => last'.n = Remaining(cache, now, key)
              /\ cache' = cache]_vars

\* C26: extend_ttl returns true and sets last_accessed to now exactly when the
\* entry exists and is not expired; otherwise it returns false and leaves the
\* whole cache as it was.
C26_ExtendOnlyLive ==
    [][last'.op = "extend_ttl" =>
          LET key == last'.key
          IN  /\ last_cleanup' = last_cleanup
              /\ IF cache[key] # Absent /\ ~Expired(cache, now, key)
                 THEN /\ last'.ok
                      /\ cache' = [cache EXCEPT ![key].last_accessed = now]
                 ELSE /\ ~last'.ok
                      /\ cache' = cache]_vars

\* extend_ttl has just refused an expired entry that is still stored, after
\* an earlier extension of another entry had moved that one's last access
C26_Witness ==
    /\ last.op = "extend_ttl"
    /\ ~last.ok
    /\ Expired(cache, now, last.key)
    /\ \E k \in Stored(cache) :
          /\ ~Expired(cache, now, k)
          /\ cache[k].last_accessed > cache[k].created_at

\* C27: cleanup removes exactly the expired entries and returns how many they
\* were, however long ago the previous sweep ran; the entries that are not
\* expired keep their value and their timestamps.
C27_CleanupExactlyExpired ==
    [][last'.op = "cleanup" =>
          /\ cache' = [k \in SessionIds |->
                          IF Expired(cache, now, k) THEN Absent ELSE cache[k]]
          /\ last'.n = Cardinality({k \in SessionIds : Expired(cache, now, k)})]_vars

\* cleanup has just removed one expired entry and left a live one, before
\* the lazy sweep was due
C27_Witness ==
    /\ last.op = "cleanup"
    /\ last.n = 1
    /\ Cardinality(Stored(cache)) = 1
    /\ ~LazySweepDue(last_cleanup, now)
    /\ \A k \in Stored(cache) : ~Expired(cache, now, k) /\ cache[k].last_accessed < now

\* ------------------------------------- claims on failing collaborators
\* the phases the branches of process_message can leave a session in
DefinedPhases ==
    SettlingPhases \cup {"waiting_location", "asking_destination", "navigating"}

\* a process_message call that had loaded its context ends
LoadedCallEnds == pc[1] \in {"pm_branch", "pm_finish"} /\ pc'[1] = "idle"

\* C28: whatever collaborator fails during process_message, the call still
\* returns a reply, the session is left in a defined phase and the turn is
\* counted; a failed retrieval is handled as no candidates, and a failed
\* speech synthesis gives has_audio = false.
C28_CollaboratorFailuresCaught ==
    [][LoadedCallEnds =>
          /\ resp'[1].kind = "returned"
          /\ After.phase \in DefinedPhases
          /\ After.turn_count = Before.turn_count + 1
          /\ "retrieval" \in loc[1].failures =>
                /\ After.phase = loc[1].phase
                /\ After.suggestions_list = Before.suggestions_list
          /\ resp'[1].audio \in {"failed", "empty", "unavailable"} =>
                ~resp'[1].has_audio]_vars

\* ------------------------------------- claims on the phase progression
\* what llm_service.generate_response returns: a text, or nothing
Generations == {EmptyName, "generated text"}

\* response_message, _ = self._generate_llm_response(...) and, where the
\* branch has one, the template that stands in for an empty text
Replied(response_message, generated) ==
    IF response_message \in LlmGenerated /\ generated # EmptyName
    THEN generated ELSE response_message

\* (mutation) a turn whose phase is only advanced when a text was generated
TurnWith_TextDecides(context, message, n, classification, generated) ==
    LET out == PhaseBranch(context, context.phase,
                           IF context.phase \in SuggestingPhases
                           THEN context.suggestions_list[context.current_suggestion_index + 1]
                           ELSE NoText,
                           message, RagResults(n), classification)
    IN  [context |-> IF generated = EmptyName
                     THEN CountTurn([out.context EXCEPT !.phase = context.phase])
                     ELSE CountTurn(out.context),
         reply |-> Replied(out.response_message, generated)]

\* one process_message turn on a context, given what retrieval, the
\* classifier and text generation answer: the context after it and the reply
TurnWith(context, message, n, classification, generated) ==
    LET out == PhaseBranch(context, context.phase,
                           IF context.phase \in SuggestingPhases
                           THEN context.suggestions_list[context.current_suggestion_index + 1]
                           ELSE NoText,
                           message, RagResults(n), classification)
    IN  [context |-> CountTurn(out.context),
         reply |-> Replied(out.response_message, generated)]

\* one dialogue held twice: both runs get the same message, the same
\* retrieval results and the same classification in every turn, and each run
\* gets generated texts of its own
Runs == {1, 2}

TwinTurn ==
    \E m \in Texts, n \in 0..MaxRag, c \in Classifications,
       generated \in [Runs -> Generations] :
        /\ \A r \in Runs : heap[r].turn_count < MaxTurns
        /\ heap' = [k \in SessionIds |->
                       IF k \in Runs
                       THEN TurnWith(heap[k], m, n, c, generated[k]).context
                       ELSE heap[k]]
        /\ loc' = [t \in Threads |->
                      [NoLoc EXCEPT !.response_message =
                                        TurnWith(heap[t], m, n, c, generated[t]).reply]]
        /\ UNCHANGED <<max_sessions, ttl_seconds, cache, last_cleanup, now, lock, last, nextId, pc, resp,
                       extra_allowed, conn, manager, voice>>

TwinInit ==
    /\ ttl_seconds = 1 /\ max_sessions = 1 /\ extra_allowed \in BOOLEAN /\ CacheInit
    /\ heap = [k \in SessionIds |-> IF k \in Runs THEN NewContext(k) ELSE NoCtx]
    /\ nextId = 0
    /\ pc = [t \in Threads |-> "idle"]
    /\ loc = [t \in Threads |-> NoLoc]
    /\ resp = [t \in Threads |-> NoResp]
    /\ conn = [c \in Threads |-> NoConn]
    /\ manager = [k \in SessionIds |-> None]
    /\ voice = [c \in Threads |-> NoVoice]

SpecTwin == TwinInit /\ [][TwinTurn]_vars

Selected(context) == <<context.selected_stopover, context.selected_stopover_info>>

\* C30: selected_stopover and selected_stopover_info are set once in the
\* lifetime of a session: once a suggestion was accepted no later call changes
\* them, and nothing but a process_message call that accepts a suggestion
\* sets them.
C30_StopoverSetOnce ==
    [][\A k \in SessionIds :
          (heap[k] # NoCtx /\ heap'[k] # NoCtx) =>
              /\ Selected(heap[k]) # <<NoText, NoPlace>> =>
                    Selected(heap'[k]) = Selected(heap[k])
              /\ Selected(heap'[k]) # Selected(heap[k]) =>
                    /\ pc[1] = "pm_branch"
                    /\ loc[1].session_id = k
                    /\ loc[1].phase \in SuggestingPhases
                    /\ loc'[1].classification = "affirmative"]_vars

\* ------------------------------------- claims on the keyword matching
\* the branch of a reply to a suggestion is left
SuggestionReplyHandled ==
    pc[1] = "pm_branch" /\ pc'[1] # "pm_branch" /\ loc[1].phase \in SuggestingPhases

\* C31: with no language-model classifier at hand a reply to a suggestion is
\* classified by keywords, negative cues first: a reply that contains a
\* negative cue is taken as negative, also when an affirmative cue is a
\* substring of it, and the suggestion is not accepted as the stopover.
C31_NegativeCueFirst ==
    [][(SuggestionReplyHandled
            /\ _is_negative_response(Spelling(loc[1].message))) =>
          /\ pc'[1] = "pm_finish"
          /\ loc'[1].classification = "negative"
          /\ Selected(heap'[loc[1].session_id]) = Selected(heap[loc[1].session_id])
          /\ heap'[loc[1].session_id].current_suggestion_index =
                heap[loc[1].session_id].current_suggestion_index + 1]_vars

\* ------------------------------------- claims on exists and on eviction
\* C32: exists(key) returns true exactly when get(key) at that instant would
\* return a value; it removes the entry when it is expired and changes
\* nothing else, so that last_accessed of a live entry stays as it was.
C32_ExistsLikeGetWithoutTouch ==
    [][last'.op = "exists" =>
          LET key == last'.key
          IN  /\ last'.ok <=> (cache[key] # Absent /\ ~Expired(cache, now, key))
              /\ last'.ok <=> (GetResult(cache, now, key).ret # None)
              /\ cache' = IF Expired(cache, now, key)
                          THEN [cache EXCEPT ![key] = Absent] ELSE cache
              /\ last_cleanup' = last_cleanup]_vars

\* exists has just returned true for an entry whose last access lies in the
\* past and still does
C32_Witness ==
    /\ last.op = "exists"
    /\ last.ok
    /\ cache[last.key].last_accessed < now
    /\ cache[last.key].last_accessed > cache[last.key].created_at

\* ------------------------------------- claims on the lock
\* C33: every cache operation that threads call concurrently returns in the
\* end: none deadlocks, get_stats with its nested count and set included.
C33_OperationsReturn ==
    \A t \in Threads : (pc[t] # "idle") ~> (pc[t] = "idle")

\* a thread is inside the count of its get_stats and holds the lock twice
\* while the other thread waits for the lock with a set
C33_Witness ==
    /\ pc[1] = "count_leave"
    /\ loc[1].op = "get_stats"
    /\ lock = [owner |-> 1, depth |-> 2]
    /\ pc[2] = "with_lock"
    /\ loc[2].op = "set"

\* ------------------------------------------- claims on the voice connection
\* nothing happened at time t, or it is USER_RESPONSE_TIMEOUT seconds ago
SilentSince(t) ==
    t = NoInt \/ now - t >= USER_RESPONSE_TIMEOUT * TicksPerSecond

\* the step in which the monitor of connection c calls
\* conversation_service.generate_timeout_response
TimeoutRequested(c) ==
    /\ pc[c] = "idle"
    /\ conn[c].stage = "open"
    /\ last'.op = "get"
    /\ \/ pc'[c] = "to_finish"
       \/ resp'[c].op = "generate_timeout_response" /\ resp'[c].kind = "None"

\* C34: on a voice connection the monitor asks for a timeout response only
\* when USER_RESPONSE_TIMEOUT seconds have passed since the last user message
\* and since the last reply sent, the last timeout response included; closing
\* the connection cancels the monitor, and a timeout response is generated
\* only for the session of an open connection whose monitor runs.
C34_TimeoutMonitor ==
    [][\A c \in Threads :
          /\ TimeoutRequested(c) =>
                 /\ voice[c].timeout_task = "running"
                 /\ SilentSince(voice[c].heard)
                 /\ SilentSince(voice[c].sent)
                 /\ SilentSince(voice[c].delivered)
          /\ conn'[c].stage # "open" => voice'[c].timeout_task # "running"
          /\ (pc[c] = "to_finish" /\ pc'[c] = "idle" /\ resp'[c].kind = "returned") =>
                 /\ conn[c].stage = "open" /\ voice[c].timeout_task = "running"
                 /\ resp'[c].session_id = conn[c].session_id]_vars

\* the monitor asks for a second timeout response on a connection that got a
\* user message and one timeout response
C34_Witness ==
    /\ pc[1] = "to_finish"
    /\ voice[1].heard # NoInt
    /\ voice[1].delivered # NoInt
    /\ now - voice[1].delivered >= USER_RESPONSE_TIMEOUT * TicksPerSecond

\* ------------------------------------------- claims on the suggestion index
\* C35: whenever a session is in SUGGESTING_FIRST, SUGGESTING_SECOND or
\* SUGGESTING_THIRD its current_suggestion_index is 0, 1 or 2 respectively and
\* lies below the length of suggestions_list, so that the candidate read when
\* the reply is handled exists (one caller at a time).
C35_SuggestionIndexInRange ==
    \A k \in SessionIds :
        (heap[k] # NoCtx /\ heap[k].phase \in SuggestingPhases) =>
            /\ heap[k].current_suggestion_index \in 0..2
            /\ heap[k].phase = SuggestingPhaseFor(heap[k].current_suggestion_index)
            /\ heap[k].current_suggestion_index < Len(heap[k].suggestions_list)

\* a session whose third and last candidate is on offer
C35_Witness ==
    \E k \in SessionIds :
        /\ heap[k] # NoCtx
        /\ heap[k].phase = "suggesting_third"
        /\ heap[k].current_suggestion_index = 2
        /\ Len(heap[k].suggestions_list) = 3

\* ------------------------------------------- claims on eviction and expiry
\* C36: the eviction that makes room never removes a live session while an
\* expired entry is still stored, whether or not the lazy sweep ran in that
\* set: when the entry a set evicted was live, no entry the set left in the
\* cache is expired.
C36_EvictsExpiredFirst ==
    [][(/\ last'.op = "set"
        /\ last'.evicted # None
        /\ cache[last'.evicted] # Absent
        /\ now - cache[last'.evicted].last_accessed <= TtlTicks)
       => \A k \in Stored(cache') :
              now - cache'[k].last_accessed <= TtlTicks]_vars

\* a set without a sweep has just evicted an expired entry and left a live one
C36_Witness ==
    /\ last.op = "set"
    /\ last.evicted # None
    /\ last.stale
    /\ last_cleanup # now
    /\ \E k \in Stored(cache) \ {last.key} :
           now - cache[k].last_accessed <= TtlTicks

C38_AllOrNothing ==
    [][(LoadedCallEnds /\ resp'[1].kind = "raised") =>
          /\ Len(After.messages) = loc[1].history
          /\ After.phase = Before.phase
          /\ After.current_suggestion_index = Before.current_suggestion_index
          /\ After.turn_count = Before.turn_count]_vars

\* ------------------------------------------- claims on shared sessions
\* C39: with two WebSocket connections open on one session_id, closing one
\* leaves the other undisturbed: the connection that remains is still the one
\* registered under the session_id if it was, and the session stays in the
\* cache.
C39_CloseLeavesPeer ==
    [][\A c \in Threads : \A o \in Threads \ {c} :
          (/\ conn[c].stage = "open" /\ conn'[c].stage = "closed"
           /\ conn[o].stage = "open"
           /\ conn[o].session_id = conn[c].session_id)
          => /\ manager[conn[o].session_id] = o => manager'[conn[o].session_id] = o
             /\ cache[conn[o].session_id] # Absent =>
                    cache'[conn[o].session_id] # Absent]_vars

\* ------------------------------------------- claims on idle sessions
\* the step in which generate_timeout_response is called for session k
TimeoutLoads(k) ==
    /\ pc[1] = "idle"
    /\ last'.op = "get"
    /\ last'.key = k
    /\ \/ pc'[1] = "to_finish"
       \/ pc'[1] = "idle" /\ resp'[1].op = "generate_timeout_response"
                          /\ resp'[1].kind = "None"

\* C40: every generate_timeout_response on a live session refreshes its
\* last_accessed, so a session that gets no user message but a timeout
\* response at most ttl_seconds after its last access is found alive by each
\* of them and does not expire.
C40_TimeoutKeepsAlive ==
    [][/\ \A k \in SessionIds :
            (/\ TimeoutLoads(k)
             /\ cache[k] # Absent
             /\ now - cache[k].last_accessed <= TtlTicks)
            => /\ pc'[1] = "to_finish"
               /\ cache'[k] # Absent
               /\ cache'[k].last_accessed = now
       /\ (pc[1] = "to_finish" /\ pc'[1] = "idle") =>
             /\ cache'[loc[1].session_id] # Absent
             /\ resp'[1].kind = "returned" =>
                    cache'[loc[1].session_id].last_accessed = now]_vars

\* a session with nothing but timeout responses in its history is found alive
\* exactly ttl_seconds after the last of them was stored
C40_Witness ==
    /\ pc[1] = "to_finish"
    /\ LET k == loc[1].session_id
       IN  /\ cache[k] # Absent
           /\ cache[k].last_accessed = now
           /\ now - cache[k].created_at = TtlTicks
           /\ Len(heap[k].messages) >= 1
           /\ \A i \in 1..Len(heap[k].messages) :
                  heap[k].messages[i].role = "assistant"
====
